---- MODULE Spec2Model ----
(***************************************************************************)
(* A model of the slowpython ("horse") bytecode compiler                   *)
(* (src/src/bytecode/compiler.rs), of the value-stack effect of the        *)
(* opcodes it emits, of the built-in list type                             *)
(* (src/src/builtin_types/list_type.rs) and of the lexer                   *)
(* (src/src/lexer.rs).                                                     *)
(*                                                                         *)
(* Slots, constant indices and jump targets are 0-based, as in the Rust    *)
(* code; TLA+ sequences are 1-based, so instruction i of the code is       *)
(* instructions[i + 1] here.                                               *)
(***************************************************************************)
EXTENDS Integers, Sequences, FiniteSets, TLC

VARIABLES
    ast,      \* the parsed program handed to compile / compile_repl
    mode,     \* "none" before compilation, then "script" or "repl"
    phase,    \* "source", "compiled", "panicked", "running", "halted", "list"
    program,  \* the Program returned by compile / compile_repl
    unit,     \* the compilation unit in focus: [body, params, prefix, main]
    code,     \* the code object of the unit in focus
    unres,    \* the instructions of that unit before resolve_loads_stores
    pc,       \* program counter of the frame executing `code`
    stack,    \* value stack of that frame: a sequence of value tags
    status,   \* "idle", "run", "returned", "raised", "end", "fault"
    heap,     \* list heap: address -> object
    result    \* outcome of the last list operation

vars == <<ast, mode, phase, program, unit, code, unres, pc, stack, status, heap, result>>

-----------------------------------------------------------------------------
(* Bounds of the model *)

\* number of statement nodes of a generated program
MaxNodes == 3
\* height the value stack may reach while the model runs a code object
MaxStack == 4

-----------------------------------------------------------------------------
(* Option<T> *)

None == [some |-> FALSE]
Some(v) == [some |-> TRUE, v |-> v]

(* A BTreeMap as a function; insert overwrites the value of a present key *)
EmptyMap == [k \in {} |-> 0]
MapLen(m) == Cardinality(DOMAIN m)
MapInsert(m, k, v) == [x \in (DOMAIN m) \cup {k} |-> IF x = k THEN v ELSE m[x]]

-----------------------------------------------------------------------------
(* Expr, Const, Instruction *)

IntegerValue(i) == [k |-> "IntegerValue", i |-> i]
BooleanValue(b) == [k |-> "BooleanValue", b |-> b]
StringValue(s) == [k |-> "StringValue", s |-> s]
NoneValue == [k |-> "None"]
Variable(n) == [k |-> "Variable", name |-> n]
MemberAccess(e, n) == [k |-> "MemberAccess", e |-> e, name |-> n]
BinaryOperation(l, o, r) == [k |-> "BinaryOperation", lhs |-> l, op |-> o, rhs |-> r]
UnaryExpression(o, r) == [k |-> "UnaryExpression", op |-> o, rhs |-> r]
FunctionCall(f, ps) == [k |-> "FunctionCall", f |-> f, params |-> ps]
IndexAccessExpr(e, i) == [k |-> "IndexAccess", e |-> e, index |-> i]
Array(es) == [k |-> "Array", exprs |-> es]

ConstInteger(i) == [tag |-> "Integer", i |-> i]
ConstBoolean(b) == [tag |-> "Boolean", b |-> b]
ConstString(s) == [tag |-> "String", s |-> s]
ConstNone == [tag |-> "None"]
ConstCodeObject(c) == [tag |-> "CodeObject", code |-> c]

LoadConst(i) == [op |-> "LoadConst", arg |-> i]
LoadAttr(n) == [op |-> "LoadAttr", name |-> n]
CallFunction(n) == [op |-> "CallFunction", arg |-> n]
BuildList(n) == [op |-> "BuildList", arg |-> n]
UnresolvedLoadName(n) == [op |-> "UnresolvedLoadName", name |-> n]
UnresolvedStoreName(n) == [op |-> "UnresolvedStoreName", name |-> n]
UnresolvedStoreAttr(n) == [op |-> "UnresolvedStoreAttr", name |-> n]
LoadName(s) == [op |-> "LoadName", arg |-> s]
LoadGlobal(s) == [op |-> "LoadGlobal", arg |-> s]
StoreName(s) == [op |-> "StoreName", arg |-> s]
StoreAttr(s) == [op |-> "StoreAttr", arg |-> s]
JumpUnconditional(t) == [op |-> "JumpUnconditional", arg |-> t]
JumpIfFalseAndPopStack(t) == [op |-> "JumpIfFalseAndPopStack", arg |-> t]
ForIter(t) == [op |-> "ForIter", arg |-> t]
MakeFunction(b) == [op |-> "MakeFunction", flag |-> b]
Simple(op) == [op |-> op]

-----------------------------------------------------------------------------
(* compile_expr *)

process_constval(constval, const_map) ==
    IF constval \notin DOMAIN const_map
    THEN [instrs |-> <<LoadConst(MapLen(const_map))>>,
          cm |-> MapInsert(const_map, constval, MapLen(const_map))]
    ELSE [instrs |-> <<LoadConst(const_map[constval])>>, cm |-> const_map]

BinaryOpcode(op) ==
    CASE op = "Plus" -> "BinaryAdd"
      [] op = "Mod" -> "BinaryModulus"
      [] op = "Minus" -> "BinarySubtract"
      [] op = "Multiply" -> "BinaryMultiply"
      [] op = "Divide" -> "BinaryTrueDivision"
      [] op = "Less" -> "CompareLessThan"
      [] op = "Greater" -> "CompareGreaterThan"
      [] op = "Equals" -> "CompareEquals"
      [] op = "GreaterEquals" -> "CompareGreaterEquals"
      [] op = "LessEquals" -> "CompareLessEquals"
      [] op = "NotEquals" -> "CompareNotEquals"

DunderOf(op) ==
    CASE op = "And" -> "__and__"
      [] op = "Or" -> "__or__"
      [] op = "Xor" -> "__xor__"

UnaryDunder(op) ==
    CASE op = "Plus" -> "__pos__"
      [] op = "Not" -> "__not__"
      [] op = "Minus" -> "__neg__"

RECURSIVE compile_expr(_, _)
RECURSIVE compile_exprs(_, _, _)

\* the loops `for e in exprs { final_instructions.append(compile_expr(e, const_map)) }`
compile_exprs(exprs, i, acc) ==
    IF i > Len(exprs) THEN acc
    ELSE LET r == compile_expr(exprs[i], acc.cm)
         IN  compile_exprs(exprs, i + 1, [instrs |-> acc.instrs \o r.instrs, cm |-> r.cm])

compile_expr(expr, const_map) ==
    CASE expr.k = "IntegerValue" -> process_constval(ConstInteger(expr.i), const_map)
      [] expr.k = "BooleanValue" -> process_constval(ConstBoolean(expr.b), const_map)
      [] expr.k = "StringValue" -> process_constval(ConstString(expr.s), const_map)
      [] expr.k = "None" -> process_constval(ConstNone, const_map)
      [] expr.k = "MemberAccess" ->
            LET l == compile_expr(expr.e, const_map)
            IN  [instrs |-> l.instrs \o <<LoadAttr(expr.name)>>, cm |-> l.cm]
      [] expr.k = "BinaryOperation" ->
            LET l == compile_expr(expr.lhs, const_map)
                r == compile_expr(expr.rhs, l.cm)
            IN  IF expr.op \in {"And", "Or", "Xor"}
                THEN [instrs |-> l.instrs \o <<LoadAttr(DunderOf(expr.op))>>
                                   \o r.instrs \o <<CallFunction(1)>>,
                      cm |-> r.cm]
                ELSE [instrs |-> l.instrs \o r.instrs \o <<Simple(BinaryOpcode(expr.op))>>,
                      cm |-> r.cm]
      [] expr.k = "UnaryExpression" ->
            LET r == compile_expr(expr.rhs, const_map)
            IN  [instrs |-> r.instrs \o <<LoadAttr(UnaryDunder(expr.op))>>
                               \o <<CallFunction(0)>>,
                 cm |-> r.cm]
      [] expr.k = "FunctionCall" ->
            LET f == compile_expr(expr.f, const_map)
                ps == compile_exprs(expr.params, 1, [instrs |-> f.instrs, cm |-> f.cm])
            IN  [instrs |-> ps.instrs \o <<CallFunction(Len(expr.params))>>, cm |-> ps.cm]
      [] expr.k = "IndexAccess" ->
            LET e == compile_expr(expr.e, const_map)
                i == compile_expr(expr.index, e.cm)
            IN  [instrs |-> e.instrs \o i.instrs \o <<Simple("IndexAccess")>>, cm |-> i.cm]
      [] expr.k = "Array" ->
            LET es == compile_exprs(expr.exprs, 1, [instrs |-> <<>>, cm |-> const_map])
            IN  [instrs |-> es.instrs \o <<BuildList(Len(expr.exprs))>>, cm |-> es.cm]
      [] expr.k = "Variable" ->
            [instrs |-> <<UnresolvedLoadName(expr.name)>>, cm |-> const_map]

-----------------------------------------------------------------------------
(* AST *)

Assign(path, e) == [k |-> "Assign", path |-> path, expression |-> e]
StandaloneExpr(e) == [k |-> "StandaloneExpr", expression |-> e]
Return(oe) == [k |-> "Return", expression |-> oe]
Raise(e) == [k |-> "Raise", expression |-> e]
Break == [k |-> "Break"]
ClassDeclaration(n, body) == [k |-> "ClassDeclaration", class_name |-> n, body |-> body]
DeclareFunction(n, ps, body) ==
    [k |-> "DeclareFunction", function_name |-> n, parameters |-> ps, body |-> body]
ForStatement(item, le, body) ==
    [k |-> "ForStatement", item_name |-> item, list_expression |-> le, body |-> body]
IfStatement(cond, stmts, elifs, else_) ==
    [k |-> "IfStatement", true_branch |-> [expression |-> cond, statements |-> stmts],
     elifs |-> elifs, final_else |-> else_]
WhileStatement(cond, body) == [k |-> "WhileStatement", expression |-> cond, body |-> body]
SimpleParam(n) == [k |-> "Simple", name |-> n]
DefaultValue(n, e) == [k |-> "DefaultValue", name |-> n, expr |-> e]

Range(s) == {s[i] : i \in 1..Len(s)}
Last(s) == s[Len(s)]

-----------------------------------------------------------------------------
(* resolve_loads_stores *)

RECURSIVE SeedParams(_, _, _)
\* for name in code.params.iter() { names_indices.insert(name, names_indices.len()) }
SeedParams(params, i, names_indices) ==
    IF i > Len(params) THEN names_indices
    ELSE SeedParams(params, i + 1,
                    MapInsert(names_indices, params[i], MapLen(names_indices)))

RECURSIVE FindStores(_, _, _)
\* first scan: every stored name or attribute gets the next free slot
FindStores(instructions, i, names_indices) ==
    IF i > Len(instructions) THEN names_indices
    ELSE LET ins == instructions[i]
         IN  FindStores(instructions, i + 1,
                IF /\ ins.op \in {"UnresolvedStoreName", "UnresolvedStoreAttr"}
                   /\ ins.name \notin DOMAIN names_indices
                THEN MapInsert(names_indices, ins.name, MapLen(names_indices))
                ELSE names_indices)

\* the closure of the second scan, applied to one instruction
ResolveInstruction(instruction, names_indices, params) ==
    IF instruction.op = "UnresolvedLoadName"
    THEN IF instruction.name \in DOMAIN names_indices
         THEN [ins |-> LoadName(names_indices[instruction.name]), ni |-> names_indices]
         ELSE LET cur_size == MapLen(names_indices)
              IN  [ins |-> IF instruction.name \in Range(params)
                           THEN LoadName(cur_size)
                           ELSE LoadGlobal(cur_size),
                   ni |-> MapInsert(names_indices, instruction.name, cur_size)]
    ELSE IF instruction.op = "UnresolvedStoreName"
    THEN [ins |-> StoreName(names_indices[instruction.name]), ni |-> names_indices]
    ELSE IF instruction.op = "UnresolvedStoreAttr"
    THEN [ins |-> StoreAttr(names_indices[instruction.name]), ni |-> names_indices]
    ELSE [ins |-> instruction, ni |-> names_indices]

RECURSIVE ResolveAll(_, _, _, _)
ResolveAll(instructions, i, acc, params) ==
    IF i > Len(instructions) THEN acc
    ELSE LET r == ResolveInstruction(instructions[i], acc.ni, params)
         IN  ResolveAll(instructions, i + 1,
                        [instrs |-> Append(acc.instrs, r.ins), ni |-> r.ni], params)

\* indices_names[v] = k for every (k, v); a slot no name maps to keeps ""
IndicesNames(names_indices) ==
    [i \in 1..MapLen(names_indices) |->
        IF \E n \in DOMAIN names_indices : names_indices[n] = i - 1
        THEN CHOOSE n \in DOMAIN names_indices : names_indices[n] = i - 1
        ELSE ""]

\* a resolver that scans the stores before it seeds the parameters
resolve_loads_stores_StoresFirst(c) ==
    LET stored == FindStores(c.instructions, 1, EmptyMap)
        seeded == SeedParams(c.params, 1, stored)
        r == ResolveAll(c.instructions, 1, [instrs |-> <<>>, ni |-> seeded], c.params)
    IN  [c EXCEPT !.instructions = r.instrs, !.names = IndicesNames(r.ni)]

resolve_loads_stores(c) ==
    LET seeded == SeedParams(c.params, 1, EmptyMap)
        stored == FindStores(c.instructions, 1, seeded)
        r == ResolveAll(c.instructions, 1, [instrs |-> <<>>, ni |-> stored], c.params)
    IN  [c EXCEPT !.instructions = r.instrs, !.names = IndicesNames(r.ni)]

-----------------------------------------------------------------------------
(* make_code_object *)

\* the constants of the map in descending order of their index
SortedConsts_Descending(const_map) ==
    [i \in 1..MapLen(const_map) |->
        CHOOSE c \in DOMAIN const_map : const_map[c] = MapLen(const_map) - i]

\* the constants of the map ordered by their index
SortedConsts(const_map) ==
    [i \in 1..MapLen(const_map) |-> CHOOSE c \in DOMAIN const_map : const_map[c] = i - 1]

\* a make_code_object that interns the late None without pushing it to consts
make_code_object_NoneNotPushed(instrs, name, const_map, ensure_return) ==
    LET code_obj == [instructions |-> instrs, names |-> <<>>, params |-> <<>>,
                     consts |-> SortedConsts(const_map), main |-> FALSE, objname |-> name]
    IN  IF ~ensure_return
        THEN [code |-> code_obj, cm |-> const_map, panic |-> FALSE]
        ELSE IF instrs = <<>>
        THEN [code |-> code_obj, cm |-> const_map, panic |-> TRUE]
        ELSE IF Last(instrs).op = "ReturnValue"
        THEN [code |-> code_obj, cm |-> const_map, panic |-> FALSE]
        ELSE LET cm2 == IF ConstNone \notin DOMAIN const_map
                        THEN MapInsert(const_map, ConstNone, MapLen(const_map))
                        ELSE const_map
             IN  [code |-> [code_obj EXCEPT
                              !.instructions = instrs \o <<LoadConst(cm2[ConstNone]),
                                                          Simple("ReturnValue")>>],
                  cm |-> cm2, panic |-> FALSE]

\* result: the code object, the const_map as the call leaves it, and whether it panicked
make_code_object(instrs, name, const_map, ensure_return) ==
    LET code_obj == [instructions |-> instrs, names |-> <<>>, params |-> <<>>,
                     consts |-> SortedConsts(const_map), main |-> FALSE, objname |-> name]
    IN  IF ~ensure_return
        THEN [code |-> code_obj, cm |-> const_map, panic |-> FALSE]
        ELSE IF instrs = <<>>
        THEN [code |-> code_obj, cm |-> const_map, panic |-> TRUE]
        ELSE IF Last(instrs).op = "ReturnValue"
        THEN [code |-> code_obj, cm |-> const_map, panic |-> FALSE]
        ELSE LET cm2 == IF ConstNone \notin DOMAIN const_map
                        THEN MapInsert(const_map, ConstNone, MapLen(const_map))
                        ELSE const_map
                 consts2 == IF ConstNone \notin DOMAIN const_map
                            THEN Append(code_obj.consts, ConstNone)
                            ELSE code_obj.consts
             IN  [code |-> [code_obj EXCEPT
                              !.consts = consts2,
                              !.instructions = instrs \o <<LoadConst(cm2[ConstNone]),
                                                          Simple("ReturnValue")>>],
                  cm |-> cm2, panic |-> FALSE]

generate_assign_path(remaining_parts, is_first) ==
    [i \in 1..Len(remaining_parts) |->
        IF i < Len(remaining_parts)
        THEN IF i = 1 /\ is_first
             THEN UnresolvedLoadName(remaining_parts[i])
             ELSE LoadAttr(remaining_parts[i])
        ELSE UnresolvedStoreAttr(remaining_parts[i])]

\* a qualified name that leaves out the enclosing prefix
build_fully_qualified_name_Unqualified(prefix, name) == name

build_fully_qualified_name(prefix, name) ==
    IF prefix.some THEN prefix.v \o "." \o name ELSE name

-----------------------------------------------------------------------------
(* compile_ast_internal.  The operators below return [instrs, cm, panic]:   *)
(* the instruction list, the const_map as the call leaves it (the Rust code *)
(* mutates one shared map), and whether the call panicked.  The `results`   *)
(* vector of the Rust code is passed along and never written, so it is left *)
(* out.  An arm of the match is split where it calls compile_expr or        *)
(* compile_ast_internal: the next operator takes the value of that call.    *)

RECURSIVE compile_ast_internal(_, _, _, _, _)
RECURSIVE compile_items(_, _, _, _, _)

Done(instrs, cm) == [instrs |-> instrs, cm |-> cm, panic |-> FALSE]
Panic(instrs, cm) == [instrs |-> instrs, cm |-> cm, panic |-> TRUE]

\* a break resolution that jumps to the loop's closing jump instead of past it
ResolveBreaks_ToClosingJump(instrs, target) ==
    [i \in 1..Len(instrs) |->
        IF instrs[i].op = "UnresolvedBreak" THEN JumpUnconditional(target - 1) ELSE instrs[i]]

\* map(|instr| if UnresolvedBreak then JumpUnconditional(target) else instr)
ResolveBreaks(instrs, target) ==
    [i \in 1..Len(instrs) |->
        IF instrs[i].op = "UnresolvedBreak" THEN JumpUnconditional(target) ELSE instrs[i]]

\* params = parameters.iter().map(name of Simple / DefaultValue)
ParamNames(parameters) == [i \in 1..Len(parameters) |-> parameters[i].name]

RECURSIVE compile_defaults_Reversed(_, _, _)
\* a compile_defaults that emits each default value before the earlier ones
compile_defaults_Reversed(parameters, i, acc) ==
    IF i > Len(parameters) THEN acc
    ELSE IF parameters[i].k = "DefaultValue"
    THEN LET r == compile_expr(parameters[i].expr, acc.cm)
         IN  compile_defaults_Reversed(parameters, i + 1,
                [instrs |-> r.instrs \o acc.instrs, cm |-> r.cm, n |-> acc.n + 1])
    ELSE compile_defaults_Reversed(parameters, i + 1, acc)

RECURSIVE compile_defaults(_, _, _)
\* for param in parameters { if DefaultValue(_, expr) { compile_expr(expr, const_map) ... } }
compile_defaults(parameters, i, acc) ==
    IF i > Len(parameters) THEN acc
    ELSE IF parameters[i].k = "DefaultValue"
    THEN LET r == compile_expr(parameters[i].expr, acc.cm)
         IN  compile_defaults(parameters, i + 1,
                [instrs |-> acc.instrs \o r.instrs, cm |-> r.cm, n |-> acc.n + 1])
    ELSE compile_defaults(parameters, i + 1, acc)

\* a unit's code object once its body is compiled (r): main and params are
\* set, then resolve_loads_stores runs. [code, unresolved, panic]
ResolvedUnit(r, params, main) ==
    LET c == [r.code EXCEPT !.main = main, !.params = params]
    IN  [code |-> IF r.panic THEN c ELSE resolve_loads_stores(c),
         unresolved |-> c.instructions,
         panic |-> r.panic]

\* the code object of a function: its body compiled with a fresh const_map
FunctionCodeObject(body, parameters, qualname) ==
    ResolvedUnit(compile_ast_internal(body, 0, Some(qualname), TRUE, EmptyMap),
                 ParamNames(parameters), FALSE)

\* the code object of a class body
ClassCodeObject(body, qualname) ==
    ResolvedUnit(compile_ast_internal(body, 0, Some(qualname), TRUE, EmptyMap),
                 <<>>, FALSE)

compile_Assign(item, all_instructions, e) ==
    Done(all_instructions \o e.instrs \o
            (IF Len(item.path) = 1
             THEN <<UnresolvedStoreName(item.path[1])>>
             ELSE generate_assign_path(item.path, TRUE)),
         e.cm)

compile_StandaloneExpr(all_instructions, e) ==
    Done(all_instructions \o e.instrs \o <<Simple("PopTop")>>, e.cm)

compile_ReturnSome(all_instructions, e) ==
    Done(all_instructions \o e.instrs \o <<Simple("ReturnValue")>>, e.cm)

\* const_map[&Const::None] panics on a map without the key
compile_ReturnNone(all_instructions, const_map) ==
    IF ConstNone \in DOMAIN const_map
    THEN Done(all_instructions \o <<LoadConst(const_map[ConstNone]), Simple("ReturnValue")>>,
              const_map)
    ELSE Panic(all_instructions, const_map)

compile_Raise(all_instructions, e) ==
    LET cm2 == IF ConstNone \notin DOMAIN e.cm
               THEN MapInsert(e.cm, ConstNone, MapLen(e.cm))
               ELSE e.cm
    IN  Done(all_instructions \o e.instrs \o
                <<Simple("Raise"), LoadConst(cm2[ConstNone]), Simple("ReturnValue")>>,
             cm2)

compile_Break(all_instructions, const_map) ==
    Done(Append(all_instructions, Simple("UnresolvedBreak")), const_map)

\* u: the class body's code object
compile_ClassDeclaration(item, all_instructions, qualname, const_map, u) ==
    LET code_idx == process_constval(ConstCodeObject(u.code), const_map)
        name_idx == process_constval(ConstString(qualname), code_idx.cm)
    IN  IF u.panic THEN Panic(all_instructions, const_map)
        ELSE Done(all_instructions \o code_idx.instrs \o name_idx.instrs \o
                     <<Simple("MakeClass"), UnresolvedStoreName(item.class_name)>>,
                  name_idx.cm)

\* u: the function's code object; d: the compiled default values
compile_DeclareFunction(item, all_instructions, qualname, const_map, u, d) ==
    LET code_idx == process_constval(ConstCodeObject(u.code), d.cm)
        name_idx == process_constval(ConstString(qualname), code_idx.cm)
    IN  IF u.panic THEN Panic(all_instructions, const_map)
        ELSE Done(all_instructions \o d.instrs \o <<BuildList(d.n)>> \o
                     code_idx.instrs \o name_idx.instrs \o
                     <<MakeFunction(d.n > 0), UnresolvedStoreName(item.function_name)>>,
                  name_idx.cm)

\* head: all_instructions with the iterable, LoadAttr(__iter__), CallFunction(0)
ForLoop(item, head, offset, compiled_body) ==
    LET offset_before_for == Len(head) + offset
        body_instructions == <<UnresolvedStoreName(item.item_name)>> \o
                             compiled_body.code.instructions
        offset_after_loop == offset_before_for + Len(body_instructions) + 2
    IN  IF compiled_body.panic THEN Panic(head, compiled_body.cm)
        ELSE Done(head \o <<ForIter(offset_after_loop)>> \o
                     ResolveBreaks(body_instructions, offset_after_loop) \o
                     <<JumpUnconditional(offset_before_for)>>,
                  compiled_body.cm)

compile_ForStatement(item, all_instructions, offset, qualified_prefix, le) ==
    ForLoop(item,
            all_instructions \o le.instrs \o <<LoadAttr("__iter__"), CallFunction(0)>>,
            offset,
            compile_ast_internal(item.body, 0, qualified_prefix, FALSE, le.cm))

\* an arm without an else whose jump target ignores the offset of the statement
IfWithoutElse_Relative(head, offset_before_if, true_branch_compiled) ==
    LET true_instrs == true_branch_compiled.code.instructions
        offset_after_true_branch == Len(head) + 1 + Len(true_instrs)
    IN  Done(head \o <<JumpIfFalseAndPopStack(offset_after_true_branch)>> \o true_instrs,
             true_branch_compiled.cm)

\* the arm without an else
IfWithoutElse(head, offset_before_if, true_branch_compiled) ==
    LET true_instrs == true_branch_compiled.code.instructions
        offset_after_true_branch == offset_before_if + Len(true_instrs)
    IN  Done(head \o <<JumpIfFalseAndPopStack(offset_after_true_branch)>> \o true_instrs,
             true_branch_compiled.cm)

\* an else arm whose closing jump lands one instruction too far
IfWithElse_PastElse(head, offset_after_true_branch, true_instrs, false_branch_compiled) ==
    LET false_instrs == false_branch_compiled.code.instructions
        offset_after_else == offset_after_true_branch + Len(false_instrs) + 1
    IN  IF false_branch_compiled.panic THEN Panic(head, false_branch_compiled.cm)
        ELSE Done(head \o <<JumpIfFalseAndPopStack(offset_after_true_branch)>> \o
                     true_instrs \o <<JumpUnconditional(offset_after_else)>> \o
                     false_instrs,
                  false_branch_compiled.cm)

\* the arm with an else, once the else block is compiled
IfWithElse(head, offset_after_true_branch, true_instrs, false_branch_compiled) ==
    LET false_instrs == false_branch_compiled.code.instructions
        offset_after_else == offset_after_true_branch + Len(false_instrs)
    IN  IF false_branch_compiled.panic THEN Panic(head, false_branch_compiled.cm)
        ELSE Done(head \o <<JumpIfFalseAndPopStack(offset_after_true_branch)>> \o
                     true_instrs \o <<JumpUnconditional(offset_after_else)>> \o
                     false_instrs,
                  false_branch_compiled.cm)

\* an if arm that compiles the body of the first elif in place of the else arm
IfBranches_FirstElifAsElse(item, head, offset_before_if, qualified_prefix, true_branch_compiled) ==
    IF true_branch_compiled.panic THEN Panic(head, true_branch_compiled.cm)
    ELSE IF item.final_else.some \/ item.elifs # <<>>
    THEN IfWithElse(head,
                    offset_before_if + Len(true_branch_compiled.code.instructions) + 1,
                    true_branch_compiled.code.instructions,
                    compile_ast_internal(
                        (IF item.elifs # <<>> THEN item.elifs[1].statements ELSE item.final_else.v),
                        offset_before_if + Len(true_branch_compiled.code.instructions) + 1,
                        qualified_prefix, FALSE, true_branch_compiled.cm))
    ELSE IfWithoutElse(head, offset_before_if, true_branch_compiled)

IfBranches(item, head, offset_before_if, qualified_prefix, true_branch_compiled) ==
    IF true_branch_compiled.panic THEN Panic(head, true_branch_compiled.cm)
    ELSE IF item.final_else.some
    THEN IfWithElse(head,
                    offset_before_if + Len(true_branch_compiled.code.instructions) + 1,
                    true_branch_compiled.code.instructions,
                    compile_ast_internal(
                        item.final_else.v,
                        offset_before_if + Len(true_branch_compiled.code.instructions) + 1,
                        qualified_prefix, FALSE, true_branch_compiled.cm))
    ELSE IfWithoutElse(head, offset_before_if, true_branch_compiled)

\* c: the compiled condition; the elifs of the statement are not read
compile_IfStatement(item, all_instructions, offset, qualified_prefix, c) ==
    IfBranches(item, all_instructions \o c.instrs,
               offset + Len(all_instructions \o c.instrs) + 1,
               qualified_prefix,
               compile_ast_internal(item.true_branch.statements,
                                    offset + Len(all_instructions \o c.instrs) + 1,
                                    qualified_prefix, FALSE, c.cm))

WhileLoop(all_instructions, offset, compiled_expr, offset_after_expr, compiled_body) ==
    LET offset_before_while == Len(all_instructions) + offset
        offset_after_body == offset_after_expr + Len(compiled_body.code.instructions) + 1
    IN  IF compiled_body.panic THEN Panic(all_instructions, compiled_body.cm)
        ELSE Done(all_instructions \o compiled_expr.instrs \o
                     <<JumpIfFalseAndPopStack(offset_after_body)>> \o
                     ResolveBreaks(compiled_body.code.instructions, offset_after_body) \o
                     <<JumpUnconditional(offset_before_while)>>,
                  compiled_body.cm)

\* offset_after_expr = all_instructions.len() + compiled_expr.len() + 1
compile_WhileStatement(item, all_instructions, offset, qualified_prefix, compiled_expr) ==
    WhileLoop(all_instructions, offset, compiled_expr,
              Len(all_instructions) + Len(compiled_expr.instrs) + 1,
              compile_ast_internal(item.body,
                                   Len(all_instructions) + Len(compiled_expr.instrs) + 1,
                                   qualified_prefix, FALSE, compiled_expr.cm))

\* one turn of `for ast_item in ast { match ast_item { ... } }`
compile_item(item, all_instructions, offset, qualified_prefix, const_map) ==
    CASE item.k = "Assign" ->
            compile_Assign(item, all_instructions, compile_expr(item.expression, const_map))
      [] item.k = "StandaloneExpr" ->
            compile_StandaloneExpr(all_instructions, compile_expr(item.expression, const_map))
      [] item.k = "Return" /\ item.expression.some ->
            compile_ReturnSome(all_instructions, compile_expr(item.expression.v, const_map))
      [] item.k = "Return" /\ ~item.expression.some ->
            compile_ReturnNone(all_instructions, const_map)
      [] item.k = "ClassDeclaration" ->
            compile_ClassDeclaration(
                item, all_instructions,
                build_fully_qualified_name(qualified_prefix, item.class_name), const_map,
                ClassCodeObject(item.body,
                    build_fully_qualified_name(qualified_prefix, item.class_name)))
      [] item.k = "DeclareFunction" ->
            compile_DeclareFunction(
                item, all_instructions,
                build_fully_qualified_name(qualified_prefix, item.function_name), const_map,
                FunctionCodeObject(item.body, item.parameters,
                    build_fully_qualified_name(qualified_prefix, item.function_name)),
                compile_defaults(item.parameters, 1,
                                 [instrs |-> <<>>, cm |-> const_map, n |-> 0]))
      [] item.k = "ForStatement" ->
            compile_ForStatement(item, all_instructions, offset, qualified_prefix,
                                 compile_expr(item.list_expression, const_map))
      [] item.k = "IfStatement" ->
            compile_IfStatement(item, all_instructions, offset, qualified_prefix,
                                compile_expr(item.true_branch.expression, const_map))
      [] item.k = "WhileStatement" ->
            compile_WhileStatement(item, all_instructions, offset, qualified_prefix,
                                   compile_expr(item.expression, const_map))
      [] item.k = "Raise" ->
            compile_Raise(all_instructions, compile_expr(item.expression, const_map))
      [] item.k = "Break" -> compile_Break(all_instructions, const_map)

compile_items(items, i, offset, qualified_prefix, acc) ==
    IF i > Len(items) \/ acc.panic THEN acc
    ELSE compile_items(items, i + 1, offset, qualified_prefix,
                       compile_item(items[i], acc.instrs, offset, qualified_prefix, acc.cm))

\* the tail of compile_ast_internal: r is what the loop over the statements
\* left. [code, cm, panic]
FinishCodeObject(r, qualified_prefix, ensure_return) ==
    LET objname == IF qualified_prefix.some THEN qualified_prefix.v ELSE "__main__"
    IN  IF r.panic
        THEN [code |-> [instructions |-> r.instrs, names |-> <<>>, params |-> <<>>,
                        consts |-> <<>>, main |-> FALSE, objname |-> objname],
              cm |-> r.cm, panic |-> TRUE]
        ELSE make_code_object(r.instrs, objname, r.cm, ensure_return)

compile_ast_internal(items, offset, qualified_prefix, ensure_return, const_map) ==
    FinishCodeObject(compile_items(items, 1, offset, qualified_prefix, Done(<<>>, const_map)),
                     qualified_prefix, ensure_return)

compile_ast(items, offset, const_map) ==
    compile_ast_internal(items, offset, None, TRUE, const_map)

\* the main code object of compile: [code, unresolved, panic]
MainCodeObject(items) ==
    ResolvedUnit(compile_ast(items, 0, EmptyMap), <<>>, TRUE)

-----------------------------------------------------------------------------
(* compile, compile_repl *)

Panicked == [panicked |-> TRUE]
Program(main_code) == [panicked |-> FALSE, version |-> 1, code_objects |-> <<main_code>>]

\* all_results stays empty (nothing is ever pushed to `results`), so the
\* program holds the main code object alone
ProgramOf(m) == IF m.panic THEN Panicked ELSE Program(m.code)

compile(items) == ProgramOf(MainCodeObject(items))

RemoveAt(s, i) == [j \in 1..(Len(s) - 1) |-> IF j < i THEN s[j] ELSE s[j + 1]]
Pop(s) == SubSeq(s, 1, Len(s) - 1)

\* the instructions of the last code object after compile_repl's trimming
ReplTrim(instructions) ==
    LET last_pop_location == Len(instructions) - 3
    IN  IF instructions[last_pop_location + 1].op = "PopTop"
        THEN Pop(RemoveAt(instructions, last_pop_location + 1))
        ELSE instructions

\* compile_repl after its call of compile; `instructions.len() - 3` on a usize
\* panics for fewer than three instructions
TrimProgram(compiled) ==
    IF compiled.panicked THEN Panicked
    ELSE LET n == Len(compiled.code_objects)
         IN  IF Len(compiled.code_objects[n].instructions) < 3 THEN Panicked
             ELSE [compiled EXCEPT !.code_objects[n].instructions =
                                       ReplTrim(compiled.code_objects[n].instructions)]

compile_repl(items) == TrimProgram(compile(items))

-----------------------------------------------------------------------------
(* The programs the model compiles: every well-formed statement list of at  *)
(* most MaxNodes statement nodes over a small vocabulary.  Blocks are       *)
(* non-empty, `break` stands only inside a loop of its own unit, parameter  *)
(* names are distinct.                                                      *)

IfCond == Variable("c")
\* the elif arms of the if statements that have some (an arm is not counted
\* as a node), and the else arm that follows them
ElifArms == <<[expression |-> Variable("e"),
              statements |-> <<Assign(<<"y">>, IntegerValue(3))>>]>>
ElseStmt == Assign(<<"x">>, IntegerValue(1))
WhileCond == BinaryOperation(Variable("x"), "Less", IntegerValue(1))
ListExpr == Variable("l")

ParamLists ==
    { <<SimpleParam("a")>>,
      <<DefaultValue("a", IntegerValue(1)), DefaultValue("b", IntegerValue(2))>> }

SimpleStmts(inLoop) ==
    { Assign(<<"x">>, IntegerValue(1)),
      Assign(<<"a", "b">>, IntegerValue(2)),
      StandaloneExpr(FunctionCall(Variable("g"), <<Variable("x")>>)),
      Return(Some(Variable("x"))),
      Return(None),
      Raise(Variable("g")) }
    \cup (IF inLoop THEN {Break} ELSE {})

RECURSIVE Stmts(_, _)
RECURSIVE Blocks(_, _)

\* the statements of exactly n nodes
Stmts(n, inLoop) ==
    IF n = 1 THEN SimpleStmts(inLoop)
    ELSE {IfStatement(IfCond, b, <<>>, None) : b \in Blocks(n - 1, inLoop)}
         \cup UNION {{IfStatement(IfCond, t, <<>>, Some(e)) :
                        t \in Blocks(i, inLoop), e \in Blocks(n - 1 - i, inLoop)} :
                     i \in 1..(n - 2)}
         \cup (IF n = 2
               THEN {IfStatement(IfCond, <<s>>, ElifArms, None) : s \in SimpleStmts(inLoop)}
               ELSE {})
         \cup (IF n = 3
               THEN {IfStatement(IfCond, <<s>>, ElifArms, Some(<<ElseStmt>>)) :
                        s \in SimpleStmts(inLoop)}
               ELSE {})
         \cup {WhileStatement(WhileCond, b) : b \in Blocks(n - 1, TRUE)}
         \cup {ForStatement("i", ListExpr, b) : b \in Blocks(n - 1, TRUE)}
         \cup {DeclareFunction("f", ps, b) : ps \in ParamLists, b \in Blocks(n - 1, FALSE)}
         \cup {ClassDeclaration("C", b) : b \in Blocks(n - 1, FALSE)}

\* the non-empty statement lists of exactly n nodes
Blocks(n, inLoop) ==
    {<<s>> : s \in Stmts(n, inLoop)}
    \cup UNION {{<<s>> \o b : s \in Stmts(k, inLoop), b \in Blocks(n - k, inLoop)} :
                k \in 1..(n - 1)}

Programs == UNION {Blocks(n, FALSE) : n \in 1..MaxNodes}

RECURSIVE UnitDecls(_)
\* the def and class statements of a unit: those of its statement list and of
\* the if / while / for blocks in it (which compile into the same code object)
UnitDecls(items) ==
    UNION { LET s == items[i]
            IN  CASE s.k \in {"DeclareFunction", "ClassDeclaration"} -> {s}
                  [] s.k = "IfStatement" ->
                        UnitDecls(s.true_branch.statements) \cup
                        (IF s.final_else.some THEN UnitDecls(s.final_else.v) ELSE {})
                  [] s.k \in {"WhileStatement", "ForStatement"} -> UnitDecls(s.body)
                  [] OTHER -> {}
            : i \in 1..Len(items) }

NoCode == [instructions |-> <<>>, names |-> <<>>, params |-> <<>>, consts |-> <<>>,
           main |-> FALSE, objname |-> ""]
MainUnit(items) == [body |-> items, params |-> <<>>, prefix |-> None, main |-> TRUE]

-----------------------------------------------------------------------------
(* Compilation *)

Init ==
    /\ ast \in Programs
    /\ mode = "none"
    /\ phase = "source"
    /\ program = Panicked
    /\ unit = MainUnit(ast)
    /\ code = NoCode
    /\ unres = <<>>
    /\ pc = 0
    /\ stack = <<>>
    /\ status = "idle"
    /\ heap = <<>>
    /\ result = [op |-> "none"]

Compiled(p, unresolved, m) ==
    /\ program' = p
    /\ mode' = m
    /\ IF p.panicked
       THEN /\ phase' = "panicked"
            /\ UNCHANGED <<code, unres>>
       ELSE /\ phase' = "compiled"
            /\ code' = p.code_objects[1]
            /\ unres' = unresolved
    /\ UNCHANGED <<ast, unit, pc, stack, status, heap, result>>

\* main.rs, script mode: compile(ast)
Compile ==
    /\ phase = "source"
    /\ Compiled(compile(ast), MainCodeObject(ast).unresolved, "script")

\* main.rs, REPL: compile_repl(ast)
CompileRepl ==
    /\ phase = "source"
    /\ Compiled(compile_repl(ast), MainCodeObject(ast).unresolved, "repl")

\* u: the code object the compiler builds for a def or class of the unit in
\* focus and interns as a constant of the enclosing unit
Enter(u, body, params, qualname) ==
    /\ ConstCodeObject(u.code) \in Range(code.consts)
    /\ code' = u.code
    /\ unres' = u.unresolved
    /\ unit' = [body |-> body, params |-> params, prefix |-> Some(qualname),
                main |-> FALSE]
    /\ UNCHANGED <<ast, mode, phase, program, pc, stack, status, heap, result>>

\* the compiler's descent into a def of the unit in focus
EnterFunction ==
    /\ phase = "compiled"
    /\ \E d \in UnitDecls(unit.body) :
          /\ d.k = "DeclareFunction"
          /\ Enter(FunctionCodeObject(d.body, d.parameters,
                       build_fully_qualified_name(unit.prefix, d.function_name)),
                   d.body, ParamNames(d.parameters),
                   build_fully_qualified_name(unit.prefix, d.function_name))

\* the same for a class body
EnterClass ==
    /\ phase = "compiled"
    /\ \E d \in UnitDecls(unit.body) :
          /\ d.k = "ClassDeclaration"
          /\ Enter(ClassCodeObject(d.body,
                       build_fully_qualified_name(unit.prefix, d.class_name)),
                   d.body, <<>>,
                   build_fully_qualified_name(unit.prefix, d.class_name))

-----------------------------------------------------------------------------
(* The value-stack effect of the opcodes, one frame executing `code`.  A    *)
(* value on the stack is tagged with the index of the instruction that      *)
(* pushed it.  Conditional jumps and ForIter take either outcome.           *)

NumInstr == Len(code.instructions)
Instr == code.instructions[pc + 1]

PushOps == {"LoadConst", "LoadName", "LoadGlobal"}
BinaryOps == {"BinaryAdd", "BinaryModulus", "BinarySubtract", "BinaryMultiply",
              "BinaryTrueDivision", "CompareLessThan", "CompareGreaterThan",
              "CompareEquals", "CompareGreaterEquals", "CompareLessEquals",
              "CompareNotEquals"}
StraightOps == PushOps \cup BinaryOps \cup
               {"StoreName", "PopTop", "LoadAttr", "StoreAttr", "IndexAccess",
                "BuildList", "CallFunction", "MakeFunction", "MakeClass"}
ControlOps == {"JumpUnconditional", "JumpIfFalseAndPopStack", "ForIter",
               "ReturnValue", "Raise"}

\* how many values the instruction pops
Pops(ins) ==
    CASE ins.op \in PushOps -> 0
      [] ins.op \in {"StoreName", "PopTop", "LoadAttr"} -> 1
      [] ins.op \in BinaryOps \cup {"StoreAttr", "IndexAccess", "MakeClass"} -> 2
      [] ins.op = "BuildList" -> ins.arg
      [] ins.op = "CallFunction" -> ins.arg + 1
      [] ins.op = "MakeFunction" -> IF ins.flag THEN 3 ELSE 2
      [] ins.op \in {"JumpIfFalseAndPopStack", "ReturnValue", "Raise"} -> 1
      [] ins.op = "ForIter" -> 0
      [] ins.op = "JumpUnconditional" -> 0

\* how many values it pushes
Pushes(ins) ==
    IF ins.op \in {"StoreName", "PopTop", "StoreAttr"} THEN 0 ELSE 1

Drop(s, n) == SubSeq(s, 1, Len(s) - n)

Running == phase = "running" /\ status = "run" /\ pc < NumInstr
Frame == <<ast, mode, program, unit, code, unres, heap, result>>

\* execute_program / a call: a fresh frame on the code object in focus
Start ==
    /\ phase = "compiled"
    /\ phase' = "running"
    /\ pc' = 0
    /\ stack' = <<>>
    /\ status' = "run"
    /\ UNCHANGED Frame

\* StoreAttr(s): pop value; pop target; set target.attributes[names[s]] = value.
\* The store is recorded with the instructions that pushed the two operands.
StepStoreAttr ==
    /\ Running
    /\ Instr.op = "StoreAttr"
    /\ Len(stack) >= 2
    /\ result' = [op |-> "StoreAttr", at |-> pc, name |-> code.names[Instr.arg + 1],
                  value |-> stack[Len(stack)], target |-> stack[Len(stack) - 1]]
    /\ stack' = Drop(stack, 2)
    /\ pc' = pc + 1
    /\ UNCHANGED <<ast, mode, phase, program, unit, code, unres, status, heap>>

StepStraight ==
    /\ Running
    /\ Instr.op \in StraightOps \ {"StoreAttr"}
    /\ Len(stack) >= Pops(Instr)
    /\ Len(stack) - Pops(Instr) + Pushes(Instr) <= MaxStack
    /\ stack' = Drop(stack, Pops(Instr)) \o (IF Pushes(Instr) = 1 THEN <<pc>> ELSE <<>>)
    /\ pc' = pc + 1
    /\ UNCHANGED <<phase, status>>
    /\ UNCHANGED Frame

StepJumpUnconditional ==
    /\ Running
    /\ Instr.op = "JumpUnconditional"
    /\ pc' = Instr.arg
    /\ UNCHANGED <<phase, status, stack>>
    /\ UNCHANGED Frame

StepJumpIfFalseAndPopStack ==
    /\ Running
    /\ Instr.op = "JumpIfFalseAndPopStack"
    /\ Len(stack) >= 1
    /\ stack' = Drop(stack, 1)
    /\ \E falsy \in BOOLEAN : pc' = IF falsy THEN Instr.arg ELSE pc + 1
    /\ UNCHANGED <<phase, status>>
    /\ UNCHANGED Frame

StepForIter ==
    /\ Running
    /\ Instr.op = "ForIter"
    /\ Len(stack) >= 1
    /\ \E exhausted \in BOOLEAN :
          IF exhausted
          THEN stack' = Drop(stack, 1) /\ pc' = Instr.arg
          ELSE Len(stack) < MaxStack /\ stack' = Append(stack, pc) /\ pc' = pc + 1
    /\ UNCHANGED <<phase, status>>
    /\ UNCHANGED Frame

StepReturnValue ==
    /\ Running
    /\ Instr.op = "ReturnValue"
    /\ Len(stack) >= 1
    /\ stack' = Drop(stack, 1)
    /\ status' = "returned"
    /\ phase' = "halted"
    /\ UNCHANGED pc
    /\ UNCHANGED Frame

StepRaise ==
    /\ Running
    /\ Instr.op = "Raise"
    /\ Len(stack) >= 1
    /\ stack' = Drop(stack, 1)
    /\ status' = "raised"
    /\ phase' = "halted"
    /\ UNCHANGED pc
    /\ UNCHANGED Frame

\* the pc has run past the last instruction
StepEnd ==
    /\ phase = "running" /\ status = "run"
    /\ pc = NumInstr
    /\ status' = "end"
    /\ phase' = "halted"
    /\ UNCHANGED <<pc, stack>>
    /\ UNCHANGED Frame

\* an instruction that finds too few values on the stack, an opcode the VM
\* does not have, or a pc outside the code object
StepFault ==
    /\ phase = "running" /\ status = "run"
    /\ \/ pc > NumInstr
       \/ /\ pc < NumInstr
          /\ \/ Instr.op \notin StraightOps \cup ControlOps
             \/ Instr.op \in StraightOps \cup ControlOps /\ Len(stack) < Pops(Instr)
             \/ Instr.op = "ForIter" /\ Len(stack) < 1
    /\ status' = "fault"
    /\ phase' = "halted"
    /\ UNCHANGED <<pc, stack>>
    /\ UNCHANGED Frame

-----------------------------------------------------------------------------
(* Function objects and calls.  MakeFunction and the call of a user        *)
(* function are steps of the interpreter; they are modelled from the       *)
(* opcode table and the call rule.                                         *)

\* the value a LoadConst at 1-based position i of code c pushes
PushedConst(c, i) == c.consts[c.instructions[i].arg + 1]

\* the function object MakeFunction at position m of code c builds. Below
\* it on the stack are the qualified name (m - 1), the code object (m - 2)
\* and, if has_defaults, the list BuildList(k) at m - 3 built from the k
\* values pushed before it
MakeFunctionObject(c, m) ==
    LET k == c.instructions[m - 3].arg
    IN  [qualname |-> PushedConst(c, m - 1),
         code |-> PushedConst(c, m - 2).code,
         defaults |-> IF c.instructions[m].flag
                      THEN [i \in 1..k |-> PushedConst(c, m - 4 - k + i)]
                      ELSE <<>>]

\* the call of a user function with positional arguments args: the new
\* frame's locals, or TypeError
CallFunctionObject(function, args) ==
    LET p == Len(function.code.params)
        d == Len(function.defaults)
        n == Len(args)
    IN  IF n < p - d \/ n > p
        THEN [raised |-> "TypeError"]
        ELSE [raised |-> "none",
              locals |-> [i \in 1..p |->
                            IF i <= n THEN args[i] ELSE function.defaults[i - (p - d)]]]

-----------------------------------------------------------------------------
(* The built-in list type.  The heap maps addresses 1..Len(heap) to         *)
(* objects: an int with its value, an object of a type that has no __eq__,  *)
(* or a list with its payload, a sequence of addresses.                     *)

\* longest list payload the model starts from
MaxListLen == 2

true_val == "True"
false_val == "False"

IntObj(v) == [type |-> "int", v |-> v]
PlainObj == [type |-> "object"]
ListObj(items) == [type |-> "list", items |-> items]

\* the objects list elements point to: two ints of equal value at different
\* addresses, an int of another value, and an object without __eq__
Elements == <<IntObj(1), IntObj(1), IntObj(2), PlainObj>>
ElementAddrs == 1..Len(Elements)

Payloads == UNION {[1..n -> ElementAddrs] : n \in 0..MaxListLen}

\* runtime.call_method(ptr_self, "__eq__", [ptr_other]) on an element:
\* int.__eq__ compares the values; a type without __eq__ gives no result
call_method_eq(h, ptr_self, ptr_other) ==
    IF h[ptr_self].type = "int"
    THEN Some(IF h[ptr_other].type = "int" /\ h[ptr_self].v = h[ptr_other].v
              THEN true_val ELSE false_val)
    ELSE None

RECURSIVE EqualsInner(_, _, _, _, _)
\* for ptr_other in other_list.iter() { ... } ; the value is list_equals after it
EqualsInner(h, ptr_self, other_list, j, list_equals) ==
    IF j > Len(other_list) THEN list_equals
    ELSE IF ptr_self = other_list[j]
    THEN EqualsInner(h, ptr_self, other_list, j + 1, list_equals)
    ELSE IF call_method_eq(h, ptr_self, other_list[j]).some
    THEN IF call_method_eq(h, ptr_self, other_list[j]).v = false_val
         THEN FALSE \* list_equals = false; break
         ELSE EqualsInner(h, ptr_self, other_list, j + 1, list_equals)
    ELSE EqualsInner(h, ptr_self, other_list, j + 1, FALSE)

RECURSIVE EqualsOuter(_, _, _, _, _)
\* for ptr_self in this_list.iter() { ... }
EqualsOuter(h, this_list, other_list, i, list_equals) ==
    IF i > Len(this_list) THEN list_equals
    ELSE EqualsOuter(h, this_list, other_list, i + 1,
                     EqualsInner(h, this_list[i], other_list, 1, list_equals))

\* list.__eq__: bound_pyobj is the receiver, param the one argument
equals(h, bound_pyobj, param) ==
    IF h[param].type = "list"
    THEN IF Len(h[bound_pyobj].items) # Len(h[param].items)
         THEN false_val
         ELSE IF EqualsOuter(h, h[bound_pyobj].items, h[param].items, 1, TRUE)
              THEN false_val
              ELSE true_val
    ELSE false_val

ListAddrs(h) == {a \in 1..Len(h) : h[a].type = "list"}

InitList ==
    /\ \E p1 \in Payloads, p2 \in Payloads :
          heap = Elements \o <<ListObj(p1), ListObj(p2)>>
    /\ result = [op |-> "none"]
    /\ phase = "list"
    /\ ast = <<>>
    /\ mode = "none"
    /\ program = Panicked
    /\ unit = MainUnit(<<>>)
    /\ code = NoCode
    /\ unres = <<>>
    /\ pc = 0
    /\ stack = <<>>
    /\ status = "idle"

\* a == b with a a list
ListEq ==
    /\ phase = "list"
    /\ \E a \in ListAddrs(heap), b \in 1..Len(heap) :
          result' = [op |-> "__eq__", self |-> a, other |-> b,
                     value |-> equals(heap, a, b)]
    /\ UNCHANGED <<ast, mode, phase, program, unit, code, unres, pc, stack, status, heap>>

\* most int objects the natives allocate in one run
MaxAllocs == 1

\* a signed 128-bit integer as its two 64-bit words: hi is the high word, lo
\* the low word read as a signed 64-bit number, so the value is
\* hi * 2^64 + (lo mod 2^64)
Int128(hi, lo) == [hi |-> hi, lo |-> lo]
\* `index as usize`: the low word, unsigned; its signed reading is i.lo
AsUsizeAtLeast(i, n) == i.lo < 0 \/ i.lo >= n

Indexes == {Int128(hi, lo) : hi \in {-1, 0, 1}, lo \in (-1)..(MaxListLen + 1)}

\* list.__getitem__: index is the int taken from the argument
getitem(h, bound_pyobj, index) ==
    IF AsUsizeAtLeast(index, Len(h[bound_pyobj].items))
    THEN [raised |-> "IndexError"]
    ELSE [raised |-> "none", addr |-> h[bound_pyobj].items[index.lo + 1]]

\* list.__len__: allocates an int holding the length; [heap, addr]
len(h, bound_pyobj) ==
    [heap |-> Append(h, IntObj(Len(h[bound_pyobj].items))), addr |-> Len(h) + 1]

\* register_list_type: the native bound to each method name of list
register_list_type ==
    [name \in {"__add__", "__eq__", "__neq__", "__repr__", "__str__", "__len__",
               "__getitem__", "__iter__", "append", "extend"} |->
        CASE name = "__add__" -> "concat"
          [] name = "__eq__" -> "equals"
          [] name = "__neq__" -> "not_equals"
          [] name = "__repr__" -> "repr"
          [] name = "__str__" -> "to_str"
          [] name = "__len__" -> "len"
          [] name = "__getitem__" -> "getitem"
          [] name = "__iter__" -> "len"
          [] name = "append" -> "append"
          [] name = "extend" -> "extend"]

\* a[i]
ListGetItem ==
    /\ phase = "list"
    /\ register_list_type["__getitem__"] = "getitem"
    /\ \E a \in ListAddrs(heap), i \in Indexes :
          result' = [op |-> "__getitem__", self |-> a, index |-> i,
                     value |-> getitem(heap, a, i)]
    /\ UNCHANGED <<ast, mode, phase, program, unit, code, unres, pc, stack, status, heap>>

\* ForIter on the object __iter__ returned, repeated until exhaustion: the
\* addresses bound to the loop variable, or the error of an object without
\* __next__
ForIterUntilExhausted(h, it) ==
    IF h[it].type = "list_iterator"
    THEN [raised |-> "none",
          bound |-> SubSeq(h[h[it].over].items, h[it].pos + 1, Len(h[h[it].over].items))]
    ELSE [raised |-> "AttributeError", bound |-> <<>>]

\* for item in a: the call of a.__iter__() runs the native registered under
\* the name, and ForIter then drives the object it returned
ListIter ==
    /\ phase = "list"
    /\ Len(heap) < Len(Elements) + 2 + MaxAllocs
    /\ register_list_type["__iter__"] = "len"
    /\ \E a \in ListAddrs(heap) :
          /\ heap' = len(heap, a).heap
          /\ result' = [op |-> "__iter__", self |-> a, native |-> "len",
                        value |-> len(heap, a).addr,
                        loop |-> ForIterUntilExhausted(len(heap, a).heap, len(heap, a).addr)]
    /\ UNCHANGED <<ast, mode, phase, program, unit, code, unres, pc, stack, status>>

\* list.append: pushes the argument onto the receiver's payload
append(h, bound_pyobj, x) ==
    [raised |-> "none",
     heap |-> [h EXCEPT ![bound_pyobj].items = Append(@, x)],
     addr |-> bound_pyobj]

\* list.extend: other_data is cloned before the receiver is borrowed mutably
extend(h, bound_pyobj, other) ==
    IF h[other].type = "list"
    THEN LET cloned == h[other].items
         IN  [raised |-> "none",
              heap |-> [h EXCEPT ![bound_pyobj].items = @ \o cloned],
              addr |-> bound_pyobj]
    ELSE [raised |-> "panic", heap |-> h]

\* a concat that extends the receiver and returns it
concat_InPlace(h, bound_pyobj, other) == extend(h, bound_pyobj, other)

\* list.__add__: a new list object holding self_data followed by the values
concat(h, bound_pyobj, other) ==
    IF h[other].type = "list"
    THEN LET self_data == h[bound_pyobj].items
             values == h[other].items
         IN  [raised |-> "none",
              heap |-> Append(h, ListObj(self_data \o values)),
              addr |-> Len(h) + 1]
    ELSE [raised |-> "panic", heap |-> h]

\* the call of a mutating native on the heap as constructed: the result keeps
\* the heap of before the call
Called(name, a, b, r) ==
    /\ heap' = r.heap
    /\ result' = [op |-> name, self |-> a, other |-> b, before |-> heap, value |-> r]
    /\ UNCHANGED <<ast, mode, phase, program, unit, code, unres, pc, stack, status>>

\* a.append(x)
ListAppend ==
    /\ phase = "list" /\ result.op = "none"
    /\ register_list_type["append"] = "append"
    /\ \E a \in ListAddrs(heap), x \in 1..Len(heap) :
          Called("append", a, x, append(heap, a, x))

\* a.extend(b)
ListExtend ==
    /\ phase = "list" /\ result.op = "none"
    /\ register_list_type["extend"] = "extend"
    /\ \E a \in ListAddrs(heap), b \in 1..Len(heap) :
          Called("extend", a, b, extend(heap, a, b))

\* a + b
ListConcat ==
    /\ phase = "list" /\ result.op = "none"
    /\ register_list_type["__add__"] = "concat"
    /\ \E a \in ListAddrs(heap), b \in 1..Len(heap) :
          Called("__add__", a, b, concat(heap, a, b))

\* one call of append, extend or __add__ on the lists of the initial heap
NextListMutation ==
    \/ ListAppend
    \/ ListExtend
    \/ ListConcat

SpecListMutation == InitList /\ [][NextListMutation]_vars

NextList ==
    \/ ListEq
    \/ ListGetItem
    \/ ListIter

SpecList == InitList /\ [][NextList]_vars

-----------------------------------------------------------------------------
(* The lexer (src/src/lexer.rs).  A source is a sequence of characters, a   *)
(* character a string of length one; index is 0-based as in the code.       *)
(* tokenize ends with Ok(tokens), with Err, or with a panic.                *)

Digits == {"0", "1", "2", "3", "4", "5", "6", "7", "8", "9"}
Letters ==
    {"a", "b", "c", "d", "e", "f", "g", "h", "i", "j", "k", "l", "m", "n", "o", "p", "q",
     "r", "s", "t", "u", "v", "w", "x", "y", "z",
     "A", "B", "C", "D", "E", "F", "G", "H", "I", "J", "K", "L", "M", "N", "O", "P", "Q",
     "R", "S", "T", "U", "V", "W", "X", "Y", "Z"}
\* char::is_numeric: the decimal digits and the other characters of the
\* Unicode number categories, of which U+00BE stands here
is_numeric(c) == c \in Digits \cup {"U+00BE"}
is_ascii_alphabetic(c) == c \in Letters
is_whitespace(c) == c \in {" ", "\n", "\t"}

DigitValue(c) ==
    CASE c = "0" -> 0 [] c = "1" -> 1 [] c = "2" -> 2 [] c = "3" -> 3 [] c = "4" -> 4
      [] c = "5" -> 5 [] c = "6" -> 6 [] c = "7" -> 7 [] c = "8" -> 8 [] c = "9" -> 9

RECURSIVE DecimalValue(_, _)
\* the value of a run of decimal digits, acc the value of those read so far
DecimalValue(s, acc) ==
    IF s = <<>> THEN acc ELSE DecimalValue(Tail(s), 10 * acc + DigitValue(Head(s)))

AllDigits(s) == \A i \in 1..Len(s) : s[i] \in Digits

\* str::parse::<i128> of a buffer that starts with a numeric character:
\* a non-empty run of ASCII digits
parse_i128(s) ==
    IF s # <<>> /\ AllDigits(s)
    THEN [ok |-> TRUE, v |-> DecimalValue(s, 0)]
    ELSE [ok |-> FALSE]

RECURSIVE Normalised(_, _)
\* mantissa * 10^exponent without trailing zeros in the mantissa
Normalised(m, e) ==
    IF m = 0 THEN [m |-> 0, e |-> 0]
    ELSE IF m % 10 = 0 THEN Normalised(m \div 10, e + 1)
    ELSE [m |-> m, e |-> e]

\* the length of the longest run of ASCII digits of s from 1-based position i
RECURSIVE DigitRun(_, _)
DigitRun(s, i) == IF i <= Len(s) /\ s[i] \in Digits THEN 1 + DigitRun(s, i + 1) ELSE 0

\* str::parse::<f64> of a buffer that starts with a numeric character:
\* Digit+ ['.' Digit*] ['e' ['-'] Digit+], the value as a normalised decimal
parse_f64(s) ==
    LET n1 == DigitRun(s, 1)
        dot == IF n1 < Len(s) /\ s[n1 + 1] = "." THEN 1 ELSE 0
        n2 == IF dot = 1 THEN DigitRun(s, n1 + 2) ELSE 0
        p == n1 + dot + n2
        exp == IF p < Len(s) /\ s[p + 1] = "e" THEN 1 ELSE 0
        neg == IF exp = 1 /\ p + 1 < Len(s) /\ s[p + 2] = "-" THEN 1 ELSE 0
        n3 == IF exp = 1 THEN DigitRun(s, p + exp + neg + 1) ELSE 0
        e == DecimalValue(SubSeq(s, p + exp + neg + 1, p + exp + neg + n3), 0)
    IN  IF n1 > 0 /\ (exp = 1 => n3 > 0) /\ p + exp + neg + n3 = Len(s)
        THEN [ok |-> TRUE,
              v |-> Normalised(DecimalValue(SubSeq(s, 1, n1) \o SubSeq(s, n1 + 2, n1 + 1 + n2), 0),
                               (IF neg = 1 THEN 0 - e ELSE e) - n2)]
        ELSE [ok |-> FALSE]

\* the keyword tokens of to_token
Keywords ==
    { <<"N", "o", "n", "e">>, <<"n", "o", "t">>, <<"T", "r", "u", "e">>,
      <<"F", "a", "l", "s", "e">>, <<"a", "n", "d">>, <<"o", "r">>, <<"i", "f">>,
      <<"e", "l", "i", "f">>, <<"e", "l", "s", "e">>, <<"w", "h", "i", "l", "e">>,
      <<"b", "r", "e", "a", "k">> }

\* the operator of each spelling
OperatorToken(s) ==
    CASE s = <<"+">> -> [t |-> "Operator", op |-> "Plus"]
      [] s = <<"-">> -> [t |-> "Operator", op |-> "Minus"]
      [] s = <<"*">> -> [t |-> "Operator", op |-> "Multiply"]
      [] s = <<"/">> -> [t |-> "Operator", op |-> "Divide"]
      [] s = <<"^">> -> [t |-> "Operator", op |-> "Xor"]
      [] s = <<"<", "<">> -> [t |-> "Operator", op |-> "BitShiftLeft"]
      [] s = <<">", ">">> -> [t |-> "Operator", op |-> "BitShiftRight"]
      [] s = <<"=", "=">> -> [t |-> "Operator", op |-> "Equals"]
      [] s = <<"=">> -> [t |-> "Assign"]
      [] s = <<"!", "=">> -> [t |-> "Operator", op |-> "NotEquals"]
      [] s = <<"(">> -> [t |-> "Operator", op |-> "OpenParen"]
      [] s = <<")">> -> [t |-> "Operator", op |-> "CloseParen"]
      [] s = <<">">> -> [t |-> "Operator", op |-> "Greater"]
      [] s = <<"<">> -> [t |-> "Operator", op |-> "Less"]
      [] s = <<">", "=">> -> [t |-> "Operator", op |-> "GreaterEquals"]
      [] s = <<"<", "=">> -> [t |-> "Operator", op |-> "LessEquals"]
      [] OTHER -> [t |-> "panic"]

\* PartialToken::to_token; [t |-> "panic"] where the code panics
to_token(partial) ==
    CASE partial.p = "UndefinedOrWhitespace" -> [t |-> "panic"]
      [] partial.p = "Identifier" ->
            IF partial.s \in Keywords
            THEN [t |-> "Keyword", s |-> partial.s]
            ELSE [t |-> "Identifier", s |-> partial.s]
      [] partial.p = "Comma" -> [t |-> "Comma"]
      [] partial.p = "Colon" -> [t |-> "Colon"]
      [] partial.p = "NewLine" -> [t |-> "NewLine"]
      [] partial.p = "LiteralFloat" ->
            IF \E i \in 1..Len(partial.s) : partial.s[i] \in {".", "e"}
            THEN (IF parse_f64(partial.s).ok
                  THEN [t |-> "LiteralFloat", v |-> parse_f64(partial.s).v]
                  ELSE [t |-> "panic"])
            ELSE (IF parse_i128(partial.s).ok
                  THEN [t |-> "LiteralInteger", v |-> parse_i128(partial.s).v]
                  ELSE [t |-> "panic"])
      [] partial.p = "String" -> [t |-> "LiteralString", s |-> partial.s]
      [] partial.p = "Operator" -> OperatorToken(partial.s)


\* Tokenizer::new; out is "run" while tokenize is running
new == [index |-> 0, cur_partial_token |-> [p |-> "UndefinedOrWhitespace"],
        final_result |-> <<>>, eater_buf |-> <<>>, out |-> "run"]

can_go(chars, t) == t.index < Len(chars)
\* self.cur(), defined while can_go
cur(chars, t) == chars[t.index + 1]
LexPanic(t) == [t EXCEPT !.out = "panic"]
\* eater_buf.push(cur()); next()
PushCur(chars, t) ==
    [t EXCEPT !.eater_buf = Append(@, cur(chars, t)), !.index = @ + 1]

RECURSIVE eat_numbers(_, _)
eat_numbers(chars, t) ==
    IF can_go(chars, t) /\ is_numeric(cur(chars, t))
    THEN eat_numbers(chars, PushCur(chars, t))
    ELSE t

eat_char(chars, t, char_to_eat) ==
    IF can_go(chars, t) /\ cur(chars, t) = char_to_eat THEN PushCur(chars, t) ELSE t

RECURSIVE EatIdentifierRest(_, _)
\* the while loop of eat_identifier
EatIdentifierRest(chars, t) ==
    IF can_go(chars, t) /\
       (cur(chars, t) \in Letters \cup Digits \/ cur(chars, t) = "_")
    THEN EatIdentifierRest(chars, PushCur(chars, t))
    ELSE t

\* called where can_go holds
eat_identifier(chars, t) ==
    IF is_ascii_alphabetic(cur(chars, t)) \/ cur(chars, t) = "_"
    THEN EatIdentifierRest(chars, PushCur(chars, t))
    ELSE t

RECURSIVE EatStringLoop_IgnoresEscapes(_, _, _, _)
\* a string loop that takes the backslash for a plain character
EatStringLoop_IgnoresEscapes(chars, t, stop, is_escaping) ==
    IF ~can_go(chars, t) THEN t
    ELSE IF cur(chars, t) = stop THEN t
    ELSE EatStringLoop_IgnoresEscapes(chars, PushCur(chars, t), stop, FALSE)

RECURSIVE EatStringLoop(_, _, _, _)
\* the while loop of eat_string_literal
EatStringLoop(chars, t, stop, is_escaping) ==
    IF ~can_go(chars, t) THEN t
    ELSE IF cur(chars, t) = "\\" /\ ~is_escaping
    THEN EatStringLoop(chars, [t EXCEPT !.index = @ + 1], stop, TRUE)
    ELSE IF is_escaping
    THEN (IF cur(chars, t) \in {stop, "\\"}
          THEN EatStringLoop(chars, PushCur(chars, t), stop, FALSE)
          ELSE LexPanic(t))
    ELSE IF cur(chars, t) = stop THEN t
    ELSE EatStringLoop(chars, PushCur(chars, t), stop, FALSE)

\* called where cur() is a quote
eat_string_literal(chars, t) ==
    EatStringLoop(chars, [t EXCEPT !.index = @ + 1], cur(chars, t), FALSE)

commit_current_token(t) ==
    IF t.cur_partial_token.p = "UndefinedOrWhitespace" THEN t
    ELSE IF to_token(t.cur_partial_token).t = "panic" THEN LexPanic(t)
    ELSE [t EXCEPT !.cur_partial_token = [p |-> "UndefinedOrWhitespace"],
                   !.final_result = Append(@, to_token(t.cur_partial_token))]

RECURSIVE match_partial(_, _, _, _)
\* "yes", "no", or "panic" when cur_offset(i) reads past the end of chars;
\* i counts the characters of query matched so far
match_partial(chars, t, query, i) ==
    IF i = Len(query) THEN "yes"
    ELSE IF t.index + i >= Len(chars) THEN "panic"
    ELSE IF chars[t.index + i + 1] # query[i + 1] THEN "no"
    ELSE match_partial(chars, t, query, i + 1)

operators ==
    << <<"+">>, <<"-">>, <<"*">>, <<"/">>, <<"<", "<">>, <<">", ">">>, <<"<", "=">>,
       <<">", "=">>, <<">">>, <<"<">>, <<"!", "=">>, <<"=", "=">>, <<"=">>, <<"^">>,
       <<"(">>, <<")">> >>

RECURSIVE match_first_and_advance(_, _, _, _)
\* tries query[k..]: [m |-> "some", q, t] with t advanced, [m |-> "none"], or
\* [m |-> "panic"]
match_first_and_advance(chars, t, query, k) ==
    IF k > Len(query) THEN [m |-> "none"]
    ELSE IF match_partial(chars, t, query[k], 0) = "panic" THEN [m |-> "panic"]
    ELSE IF match_partial(chars, t, query[k], 0) = "yes"
    THEN [m |-> "some", q |-> query[k], t |-> [t EXCEPT !.index = @ + Len(query[k])]]
    ELSE match_first_and_advance(chars, t, query, k + 1)

\* cur_partial_token = partial; commit_current_token()
Commit(t, partial) == commit_current_token([t EXCEPT !.cur_partial_token = partial])
\* cur_partial_token = partial(clone_buf()); reset_eater_buffer()
Pending(t, p) ==
    [t EXCEPT !.cur_partial_token = [p |-> p, s |-> t.eater_buf], !.eater_buf = <<>>]
Next1(t) == IF t.out = "run" THEN [t EXCEPT !.index = @ + 1] ELSE t

RECURSIVE EatIndentation(_, _, _)
\* the indentation arm: counts the spaces from index on, reading cur() with
\* no can_go test, and pushes one Indentation per four
EatIndentation(chars, t, current_spaces) ==
    IF ~can_go(chars, t) THEN LexPanic(t)
    ELSE IF cur(chars, t) = " "
    THEN EatIndentation(chars, [t EXCEPT !.index = @ + 1], current_spaces + 1)
    ELSE IF current_spaces % 4 # 0 THEN LexPanic(t)
    ELSE [t EXCEPT !.final_result =
                      @ \o [i \in 1..(current_spaces \div 4) |-> [t |-> "Indentation"]]]

\* the operator, identifier, string and error arms; m is what
\* match_first_and_advance(operators) returned
TokenizeRest(chars, t, m) ==
    IF m.m = "panic" THEN LexPanic(t)
    ELSE IF m.m = "some" THEN Commit(m.t, [p |-> "Operator", s |-> m.q])
    ELSE IF is_ascii_alphabetic(cur(chars, t)) \/ cur(chars, t) = "_"
    THEN Pending(eat_identifier(chars, t), "Identifier")
    ELSE IF cur(chars, t) \in {"'", "\""}
    THEN (IF eat_string_literal(chars, t).out = "panic"
          THEN eat_string_literal(chars, t)
          ELSE Next1([commit_current_token(Pending(eat_string_literal(chars, t), "String"))
                         EXCEPT !.eater_buf = <<>>]))
    ELSE [t EXCEPT !.out = "Err"]

\* one turn of the while loop of tokenize, after its commit_current_token
TokenizeArm(chars, t) ==
    IF t.out # "run" THEN t
    ELSE IF is_numeric(cur(chars, t))
    THEN Pending(
            eat_numbers(chars,
              eat_char(chars,
                eat_char(chars,
                  eat_numbers(chars,
                    eat_char(chars,
                      eat_numbers(chars, [t EXCEPT !.eater_buf = <<>>]),
                      ".")),
                  "e"),
                "-")),
            "LiteralFloat")
    ELSE IF cur(chars, t) = "," THEN Next1(Commit(t, [p |-> "Comma"]))
    ELSE IF cur(chars, t) = ":" THEN Next1(Commit(t, [p |-> "Colon"]))
    ELSE IF cur(chars, t) = "\n" THEN Next1(Commit(t, [p |-> "NewLine"]))
    ELSE IF t.index > 0 /\ chars[t.index] = "\n" /\ cur(chars, t) = " "
    THEN EatIndentation(chars, t, 0)
    ELSE IF is_whitespace(cur(chars, t)) THEN Next1(t)
    ELSE TokenizeRest(chars, t, match_first_and_advance(chars, t, operators, 1))

RECURSIVE TokenizeLoop(_, _)
\* Tokenizer::tokenize from the state t on
TokenizeLoop(chars, t) ==
    IF t.out # "run" THEN t
    ELSE IF can_go(chars, t) THEN TokenizeLoop(chars, TokenizeArm(chars, commit_current_token(t)))
    ELSE [commit_current_token(t) EXCEPT
             !.out = IF commit_current_token(t).out = "panic" THEN "panic" ELSE "Ok"]

\* what tokenize returns from the final tokenizer state
TokenizeResult(t) ==
    [out |-> t.out, tokens |-> IF t.out = "Ok" THEN t.final_result ELSE <<>>]

\* tokenize(source): Ok with the tokens, Err, or panic
tokenize(source) == TokenizeResult(TokenizeLoop(source, new))


(* Sources.  Each is built from parts so that what it should tokenize to    *)
(* can be told from the parts.                                              *)

\* most spaces of padding at one place
MaxPad == 1
\* greatest length of the sources enumerated character by character
MaxSourceLen == 3
\* most items between the quotes of a string literal
MaxStringItems == 2
\* deepest indentation, in levels of four spaces
MaxIndent == 2

Spaces(n) == [i \in 1..n |-> " "]

RECURSIVE Flatten(_)
\* the concatenation of a sequence of character sequences
Flatten(parts) == IF parts = <<>> THEN <<>> ELSE Head(parts) \o Flatten(Tail(parts))

RECURSIVE SeqsUpTo(_, _)
\* the sequences over S of length at most n
SeqsUpTo(S, n) ==
    IF n = 0 THEN {<<>>}
    ELSE SeqsUpTo(S, n - 1) \cup
         {Append(s, x) : s \in {q \in SeqsUpTo(S, n - 1) : Len(q) = n - 1}, x \in S}

Numbers == { <<"6">>, <<"1", "2">>, <<"1", ".", "5">>, <<"2", "e", "-", "3">> }

\* the binary operators of the operator table
BinaryOperators ==
    { <<"+">>, <<"-">>, <<"*">>, <<"/">>, <<"<", "<">>, <<">", ">">>, <<"<", "=">>,
      <<">", "=">>, <<">">>, <<"<">>, <<"!", "=">>, <<"=", "=">>, <<"^">> }

\* a op b with spaces around the operator and at both ends
BinarySources ==
    { [family |-> "binary", parts |-> <<Spaces(l), a, Spaces(m), op, Spaces(n), b, Spaces(r)>>]
        : l \in 0..MaxPad, m \in 0..MaxPad, n \in 0..MaxPad, r \in 0..MaxPad,
          a \in Numbers, b \in Numbers, op \in BinaryOperators }

\* the comparison, shift and assignment operators, one or two of them, each
\* followed by a space, a digit or the end of the source
AngleOperators ==
    { <<"<", "<">>, <<">", ">">>, <<"<", "=">>, <<">", "=">>, <<"!", "=">>, <<"=", "=">>,
      <<"<">>, <<">">>, <<"=">> }
OperatorSources ==
    { [family |-> "operators", parts |-> <<<<"x">>, op1, sep>>]
        : op1 \in AngleOperators, sep \in {<<>>, <<" ">>, <<"1">>} }
    \cup
    { [family |-> "operators", parts |-> <<<<"x">>, op1, sep1, op2, sep2>>]
        : op1 \in AngleOperators, op2 \in AngleOperators,
          sep1 \in {<<" ">>, <<"1">>}, sep2 \in {<<>>, <<" ">>, <<"1">>} }

\* every source of at most MaxSourceLen characters over a small alphabet
ShortSources ==
    { [family |-> "short", parts |-> <<s>>]
        : s \in SeqsUpTo({"1", " ", "<", "-", ".", "e", "#", "%", "U+00BE"},
                         MaxSourceLen) }

\* a number followed by what ends it
NumberSources ==
    { [family |-> "number", parts |-> <<a, follow>>]
        : a \in Numbers \cup {<<"1", ".", "5", "e", "2">>, <<"7", "e", "1">>},
          follow \in {<<>>, <<" ">>, <<"x">>, <<",">>, <<")">>, <<"+", "1">>, <<"-", "1">>,
                      <<" ", "-", " ", "1">>, <<"\n">>} }

\* the items of a string literal quoted by q: plain characters, the other
\* quote, escaped q and escaped backslash
StringItems(q) ==
    { <<"a">>, <<" ">>, <<"#">>, <<IF q = "'" THEN "\"" ELSE "'">>, <<"\\", q>>, <<"\\", "\\">> }

\* a string literal between what precedes and what follows it
StringSources ==
    UNION { { [family |-> "string",
               parts |-> <<before, <<q>>, Flatten(items), <<q>>, after>>, items |-> items]
                : items \in SeqsUpTo(StringItems(q), MaxStringItems),
                  before \in {<<>>, <<"x">>, <<"x", " ">>},
                  after \in {<<>>, <<"x">>, <<" ", "1">>, <<"+">>} }
            : q \in {"'", "\""} }

\* two lines, the second indented by k levels
IndentSources ==
    { [family |-> "indent", parts |-> <<line1, <<"\n">>, Spaces(4 * k), line2>>, k |-> k]
        : k \in 0..MaxIndent,
          line1 \in {<<>>, <<"x">>, <<" ", " ", "x", " ">>, <<"i", "f", " ", "x", ":">>},
          line2 \in {<<>>, <<"x">>, <<"x", " ", " ", "=", " ", "1">>, <<"\n", "x">>} }

Sources ==
    BinarySources \cup OperatorSources \cup ShortSources \cup NumberSources \cup
    StringSources \cup IndentSources

InitLexer ==
    /\ ast = <<>>
    /\ mode = "none"
    /\ phase = "lexer"
    /\ program = Panicked
    /\ unit = MainUnit(<<>>)
    /\ code = NoCode
    /\ unres = <<>>
    /\ pc = 0
    /\ stack = <<>>
    /\ status = "idle"
    /\ heap = <<>>
    /\ \E s \in Sources :
         result = [op |-> "source", family |-> s.family, input |-> s,
                   source |-> Flatten(s.parts)]

\* lexer::tokenize(source)
Tokenize ==
    /\ phase = "lexer"
    /\ result.op = "source"
    /\ result' = [result EXCEPT !.op = "tokenize"] @@ [value |-> tokenize(result.source)]
    /\ UNCHANGED <<ast, mode, phase, program, unit, code, unres, pc, stack, status, heap>>

NextLexer == Tokenize

SpecLexer == InitLexer /\ [][NextLexer]_vars

-----------------------------------------------------------------------------
(* Properties of the code objects compile produces.  The unit in focus      *)
(* ranges over the main code object and, through EnterFunction and          *)
(* EnterClass, over every code object embedded as a constant.               *)

JumpOps == {"JumpUnconditional", "JumpIfFalseAndPopStack", "ForIter"}
SlotOps == {"LoadName", "LoadGlobal", "StoreName", "StoreAttr"}

\* a code object of compile(ast) is in focus
ScriptUnit == phase = "compiled" /\ mode = "script"

JumpIndices == {i \in 1..NumInstr : code.instructions[i].op \in JumpOps}

\* C1: after compile(ast), every jump instruction of every code object, the
\* embedded ones included, has a target t with 0 <= t <= instructions.len()
\* of its own code object.
C1_JumpTargetsWithinCode ==
    ScriptUnit =>
        \A i \in JumpIndices :
            /\ 0 <= code.instructions[i].arg
            /\ code.instructions[i].arg <= NumInstr

\* an embedded code object with a jump to one past its last instruction
C1_Witness ==
    /\ ScriptUnit
    /\ ~unit.main
    /\ \E i \in JumpIndices : code.instructions[i].arg = NumInstr

\* C2: in every code object produced by compile, every jump target is the
\* index of an existing instruction of that code object (target <
\* instructions.len()).
C2_JumpTargetsAreInstructions ==
    ScriptUnit =>
        \A i \in JumpIndices : code.instructions[i].arg < NumInstr

\* C3: in every code object produced by compile, every LoadConst(i) has
\* i < consts.len(), and every LoadName/LoadGlobal/StoreName/StoreAttr slot s
\* has s < names.len() with names[s] the identifier the instruction was
\* compiled from.
C3_OperandsInBounds ==
    ScriptUnit =>
        /\ Len(unres) = NumInstr
        /\ \A i \in 1..NumInstr :
              /\ code.instructions[i].op = "LoadConst" =>
                    /\ 0 <= code.instructions[i].arg
                    /\ code.instructions[i].arg < Len(code.consts)
              /\ code.instructions[i].op \in SlotOps =>
                    /\ 0 <= code.instructions[i].arg
                    /\ code.instructions[i].arg < Len(code.names)
                    /\ unres[i].op \in {"UnresolvedLoadName", "UnresolvedStoreName",
                                        "UnresolvedStoreAttr"}
                    /\ code.names[code.instructions[i].arg + 1] = unres[i].name

\* a method's code object that loads a constant and a parameter and stores
\* an attribute
C3_Witness ==
    /\ ScriptUnit
    /\ code.objname = "C.f"
    /\ \E i, j, k \in 1..NumInstr :
          /\ code.instructions[i].op = "LoadConst"
          /\ code.instructions[j].op = "LoadName"
          /\ code.instructions[k].op = "StoreAttr"
          /\ code.names[code.instructions[k].arg + 1] = "b"


\* the run of the main code object came to its end without a raise or a fault
CompletedNormally == phase = "halted" /\ status \in {"returned", "end"}

\* the program has no def, return or raise: the only ReturnValue of its main
\* code object is the synthesized one that ends it
PlainStatements ==
    \A i \in 1..NumInstr :
        /\ code.instructions[i].op \notin {"MakeFunction", "Raise"}
        /\ code.instructions[i].op = "ReturnValue" => i = NumInstr

\* C4: in script mode, when the compiled program is executed to normal
\* completion by the VM opcode semantics, the value stack is empty afterwards.
\* Stated for the programs whose statements are assignments, expression
\* statements, if/else, while, for, break and class.
C4_ScriptStackEmpty ==
    (mode = "script" /\ unit.main /\ CompletedNormally /\ PlainStatements)
    => stack = <<>>

\* the main instructions compile gives for the program
CompileMain == compile(ast).code_objects[1].instructions

\* C5: for a program whose last top-level statement is a standalone
\* expression, compile_repl returns the main instructions of compile with
\* exactly that statement's PopTop removed, the trailing LoadConst(None);
\* ReturnValue kept, and the run ends with the value of the expression on top
\* of the value stack.
C5_ReplRemovesOnlyPopTop ==
    (/\ mode = "repl"
     /\ unit.main
     /\ phase \in {"compiled", "halted"}
     /\ Last(ast).k = "StandaloneExpr")
    => /\ code.instructions = RemoveAt(CompileMain, Len(CompileMain) - 2)
       /\ (CompletedNormally /\ pc >= NumInstr - 1) =>
             /\ stack # <<>>
             /\ code.instructions[Last(stack) + 2].op = "LoadConst"
             /\ code.instructions[Last(stack) + 3].op = "ReturnValue"

\* the identifiers resolve_loads_stores treats as local: the parameters and
\* the targets of the stores of the code object
StoredNames ==
    {unres[i].name : i \in {j \in 1..Len(unres) :
        unres[j].op \in {"UnresolvedStoreName", "UnresolvedStoreAttr"}}}
LocalNames == Range(code.params) \cup StoredNames

\* C6: name resolution rewrites every UnresolvedLoadName(n) to LoadName(slot)
\* exactly when n is a parameter of the code object or the target of a
\* StoreName/StoreAttr in it, and to LoadGlobal(slot) otherwise, the same for
\* every occurrence of n.
C6_LoadNameIffLocal ==
    ScriptUnit =>
        \A i \in 1..NumInstr :
            unres[i].op = "UnresolvedLoadName" =>
                code.instructions[i].op =
                    (IF unres[i].name \in LocalNames THEN "LoadName" ELSE "LoadGlobal")

\* C7: executing a function, class or method code object always ends by
\* executing a ReturnValue: its last instruction is ReturnValue and the pc
\* never reaches instructions.len() without a ReturnValue or Raise executed.
C7_EndsByReturnValue ==
    (mode = "script" /\ ~unit.main /\ phase \in {"compiled", "running", "halted"}) =>
        /\ Last(code.instructions).op = "ReturnValue"
        /\ status # "end"
        /\ ~(phase = "running" /\ pc >= NumInstr)

SlotIndices == {i \in 1..NumInstr : code.instructions[i].op \in SlotOps}

\* C8: the parameters of a function are the first names of its code object,
\* in declaration order; every name stored or loaded that is not a parameter
\* has a slot >= params.len(); distinct identifiers never share a slot.
C8_ParamsAreFirstNames ==
    (ScriptUnit /\ ~unit.main) =>
        /\ code.params = unit.params
        /\ Len(code.params) <= Len(code.names)
        /\ \A i \in 1..Len(code.params) : code.names[i] = code.params[i]
        /\ \A i \in SlotIndices :
              unres[i].name \notin Range(code.params) =>
                  code.instructions[i].arg >= Len(code.params)
        /\ \A i, j \in SlotIndices :
              (unres[i].name = unres[j].name) <=>
                  (code.instructions[i].arg = code.instructions[j].arg)
        /\ \A i, j \in 1..Len(code.names) : code.names[i] = code.names[j] => i = j

\* a function of two parameters that loads a global
C8_Witness ==
    /\ ScriptUnit
    /\ ~unit.main
    /\ Len(code.params) = 2
    /\ \E i \in SlotIndices : code.instructions[i].op = "LoadGlobal"


RECURSIVE ExprConsts(_)
RECURSIVE ExprsConsts(_, _)
\* the literals of the expressions from the i-th on
ExprsConsts(exprs, i) ==
    IF i > Len(exprs) THEN <<>> ELSE ExprConsts(exprs[i]) \o ExprsConsts(exprs, i + 1)

\* the literal occurrences of an expression as constants, in source order
ExprConsts(expr) ==
    CASE expr.k = "IntegerValue" -> <<ConstInteger(expr.i)>>
      [] expr.k = "BooleanValue" -> <<ConstBoolean(expr.b)>>
      [] expr.k = "StringValue" -> <<ConstString(expr.s)>>
      [] expr.k = "None" -> <<ConstNone>>
      [] expr.k = "Variable" -> <<>>
      [] expr.k = "MemberAccess" -> ExprConsts(expr.e)
      [] expr.k = "BinaryOperation" -> ExprConsts(expr.lhs) \o ExprConsts(expr.rhs)
      [] expr.k = "UnaryExpression" -> ExprConsts(expr.rhs)
      [] expr.k = "FunctionCall" -> ExprConsts(expr.f) \o ExprsConsts(expr.params, 1)
      [] expr.k = "IndexAccess" -> ExprConsts(expr.e) \o ExprConsts(expr.index)
      [] expr.k = "Array" -> ExprsConsts(expr.exprs, 1)

RECURSIVE DefaultConsts(_, _)
DefaultConsts(parameters, i) ==
    IF i > Len(parameters) THEN <<>>
    ELSE (IF parameters[i].k = "DefaultValue" THEN ExprConsts(parameters[i].expr) ELSE <<>>)
         \o DefaultConsts(parameters, i + 1)

RECURSIVE BlockConsts(_, _, _)
\* the constant occurrences of the statements of a unit from the i-th on, in
\* source order: literals, the None of a bare return and of a raise, and the
\* code object and qualified name of a def or class
BlockConsts(items, i, prefix) ==
    IF i > Len(items) THEN <<>>
    ELSE LET s == items[i]
         IN  (CASE s.k \in {"Assign", "StandaloneExpr"} -> ExprConsts(s.expression)
                [] s.k = "Return" ->
                      IF s.expression.some THEN ExprConsts(s.expression.v) ELSE <<ConstNone>>
                [] s.k = "Raise" -> ExprConsts(s.expression) \o <<ConstNone>>
                [] s.k = "Break" -> <<>>
                [] s.k = "ClassDeclaration" ->
                      <<ConstCodeObject(ClassCodeObject(s.body,
                            build_fully_qualified_name(prefix, s.class_name)).code),
                        ConstString(build_fully_qualified_name(prefix, s.class_name))>>
                [] s.k = "DeclareFunction" ->
                      DefaultConsts(s.parameters, 1) \o
                      <<ConstCodeObject(FunctionCodeObject(s.body, s.parameters,
                            build_fully_qualified_name(prefix, s.function_name)).code),
                        ConstString(build_fully_qualified_name(prefix, s.function_name))>>
                [] s.k = "ForStatement" ->
                      ExprConsts(s.list_expression) \o BlockConsts(s.body, 1, prefix)
                [] s.k = "WhileStatement" ->
                      ExprConsts(s.expression) \o BlockConsts(s.body, 1, prefix)
                [] s.k = "IfStatement" ->
                      ExprConsts(s.true_branch.expression) \o
                      BlockConsts(s.true_branch.statements, 1, prefix) \o
                      (IF s.final_else.some
                       THEN BlockConsts(s.final_else.v, 1, prefix) ELSE <<>>))
             \o BlockConsts(items, i + 1, prefix)

RECURSIVE EndsInReturn(_)
\* the statements end with a return or a raise on their last path
EndsInReturn(items) ==
    LET s == Last(items)
    IN  CASE s.k \in {"Return", "Raise"} -> TRUE
          [] s.k = "IfStatement" ->
                IF s.final_else.some THEN EndsInReturn(s.final_else.v)
                ELSE EndsInReturn(s.true_branch.statements)
          [] OTHER -> FALSE

\* the constant occurrences of the unit in focus, the None of the synthesized
\* return included
UnitConsts ==
    BlockConsts(unit.body, 1, unit.prefix) \o
    (IF EndsInReturn(unit.body) THEN <<>> ELSE <<ConstNone>>)

\* the indices of the LoadConst instructions, in instruction order
LoadConstIndices ==
    LET at == {i \in 1..NumInstr : code.instructions[i].op = "LoadConst"}
        nth[k \in 1..Cardinality(at)] ==
            CHOOSE i \in at : Cardinality({j \in at : j < i}) = k - 1
    IN  [k \in 1..Cardinality(at) |-> code.instructions[nth[k]].arg]

\* idx are the LoadConst indices and occ the constant occurrences of a unit,
\* both in source order, consts the constants of its code object
Interned(idx, occ, consts) ==
    /\ Len(idx) = Len(occ)
    /\ \A j, k \in 1..Len(occ) : (idx[j] = idx[k]) <=> (occ[j] = occ[k])
    /\ \A k \in 1..Len(occ) :
          idx[k] = IF \E j \in 1..(k - 1) : occ[j] = occ[k]
                   THEN idx[CHOOSE j \in 1..(k - 1) : occ[j] = occ[k]]
                   ELSE Cardinality({occ[j] : j \in 1..(k - 1)})
    /\ Len(consts) = Cardinality(Range(occ))
    /\ \A k \in 1..Len(occ) : consts[idx[k] + 1] = occ[k]

\* C9: within one compilation unit constants are interned: two occurrences
\* get the same LoadConst index iff they are the same constant, indices are
\* handed out 0, 1, 2, ... in order of first occurrence, and consts[i] of the
\* finished code object is the constant that was given index i.
C9_ConstantsInterned ==
    ScriptUnit => Interned(LoadConstIndices, UnitConsts, code.consts)

\* a unit with a repeated literal, a second literal, and None added late by
\* return synthesis
C9_Witness ==
    /\ ScriptUnit
    /\ Len(code.consts) >= 3
    /\ \E j, k \in 1..Len(UnitConsts) : j < k /\ UnitConsts[j] = UnitConsts[k]
    /\ Last(code.consts) = ConstNone
    /\ ~EndsInReturn(unit.body)

-----------------------------------------------------------------------------
(* Properties of the list type *)

\* two elements are equal: the same address, or the element's __eq__ says True
ElementsEqual(h, a, b) == a = b \/ call_method_eq(h, a, b) = Some(true_val)

\* equal as lists: a list of the same length with equal elements at every index
EqualByIndex(h, a, b) ==
    /\ h[b].type = "list"
    /\ Len(h[a].items) = Len(h[b].items)
    /\ \A i \in 1..Len(h[a].items) : ElementsEqual(h, h[a].items[i], h[b].items[i])

\* C10: list __eq__ returns True if and only if the other operand is a list
\* of the same length whose element at every index equals the receiver's
\* element at that index, and False otherwise; [] == [] is True and a list
\* against a non-list is False.
C10_ListEqByIndex ==
    result.op = "__eq__" =>
        result.value = (IF EqualByIndex(heap, result.self, result.other)
                        THEN true_val ELSE false_val)

\* the 128-bit value of the index lies in 0..n-1
InRange(index, n) == index.hi = 0 /\ 0 <= index.lo /\ index.lo < n

\* C11: list __getitem__(i) returns the address stored at position i when
\* 0 <= i < len, and for every other signed 128-bit integer i (negative, or
\* at least len, however large) it raises IndexError and returns no element.
C11_GetItemChecksRange ==
    result.op = "__getitem__" =>
        IF InRange(result.index, Len(heap[result.self].items))
        THEN result.value = [raised |-> "none",
                             addr |-> heap[result.self].items[result.index.lo + 1]]
        ELSE result.value.raised = "IndexError"

\* C12: for item in L on a list L of n elements runs the body n times with
\* item bound to L[0], ..., L[n-1] in that order and then leaves the loop:
\* the registered __iter__ returns an iterator whose __next__ yields the
\* elements and then signals StopIteration.
C12_ForVisitsElementsInOrder ==
    result.op = "__iter__" =>
        /\ heap[result.value].type = "list_iterator"
        /\ result.loop = [raised |-> "none", bound |-> heap[result.self].items]

\* the heap objects that existed before the call, the receiver excepted when
\* `but` is its address, are what they were
Untouched(but) ==
    \A a \in 1..Len(result.before) : a # but => heap[a] = result.before[a]

\* C28: append(x) and extend(other) mutate the receiver in place and return
\* its address: its payload is then the old elements followed by x, resp. by
\* the elements other had before the call (also when other is the receiver),
\* and no other heap object changes; __add__ returns a newly allocated list of
\* the receiver's elements followed by the other's and changes no operand.
C28_ListMutationFrame ==
    (result.op \in {"append", "extend", "__add__"} /\ result.value.raised = "none") =>
        LET self == result.self
            other == result.other
            old == result.before
        IN  CASE result.op = "append" ->
                    /\ result.value.addr = self
                    /\ Len(heap) = Len(old)
                    /\ heap[self] = ListObj(old[self].items \o <<other>>)
                    /\ Untouched(self)
              [] result.op = "extend" ->
                    /\ result.value.addr = self
                    /\ Len(heap) = Len(old)
                    /\ heap[self] = ListObj(old[self].items \o old[other].items)
                    /\ Untouched(self)
              [] result.op = "__add__" ->
                    /\ result.value.addr = Len(old) + 1
                    /\ Len(heap) = Len(old) + 1
                    /\ heap[result.value.addr] = ListObj(old[self].items \o old[other].items)
                    /\ Untouched(0)

\* a non-empty list extended with itself
C28_Witness ==
    /\ result.op = "extend"
    /\ result.self = result.other
    /\ result.before[result.self].items # <<>>
    /\ Len(heap[result.self].items) = 2 * Len(result.before[result.self].items)

-----------------------------------------------------------------------------
(* Properties of function declarations and calls *)

RECURSIVE DeclaredFunctions(_)
\* the def statements of a unit's statement list, in source order
DeclaredFunctions(items) ==
    IF items = <<>> THEN <<>>
    ELSE LET s == Head(items)
         IN  (CASE s.k = "DeclareFunction" -> <<s>>
                [] s.k = "IfStatement" ->
                      DeclaredFunctions(s.true_branch.statements) \o
                      (IF s.final_else.some THEN DeclaredFunctions(s.final_else.v) ELSE <<>>)
                [] s.k \in {"WhileStatement", "ForStatement"} -> DeclaredFunctions(s.body)
                [] OTHER -> <<>>)
             \o DeclaredFunctions(Tail(items))

\* the 1-based positions of the MakeFunction instructions, ascending
MakeFunctionPositions ==
    SelectSeq([i \in 1..Len(code.instructions) |-> i],
              LAMBDA i : code.instructions[i].op = "MakeFunction")

\* n distinct argument values, none of them a default value
Arguments(n) == [i \in 1..n |-> ConstInteger(100 + i)]

\* the number of parameters declared with a default value
NumDefaults(parameters) ==
    Cardinality({i \in 1..Len(parameters) : parameters[i].k = "DefaultValue"})

\* what the claim says the call of def statement decl with n arguments does
DeclaredBinding(decl, n) ==
    LET p == Len(decl.parameters)
    IN  IF n < p - NumDefaults(decl.parameters) \/ n > p
        THEN [raised |-> "TypeError"]
        ELSE [raised |-> "none",
              locals |-> [i \in 1..p |->
                            IF i <= n THEN Arguments(n)[i]
                            ELSE ExprConsts(decl.parameters[i].expr)[1]]]

-----------------------------------------------------------------------------
(* Layout of loops in the instruction list, derived from the statements *)

\* the number of instructions an expression compiles to
ExprLen(expr) == Len(compile_expr(expr, EmptyMap).instrs)

RECURSIVE StmtLen(_)
RECURSIVE BlockLen(_)
\* the number of instructions a statement list contributes to its code object
BlockLen(items) ==
    IF items = <<>> THEN 0 ELSE StmtLen(Head(items)) + BlockLen(Tail(items))

StmtLen(s) ==
    CASE s.k = "Assign" -> ExprLen(s.expression) + Len(s.path)
      [] s.k = "StandaloneExpr" -> ExprLen(s.expression) + 1
      [] s.k = "Return" -> IF s.expression.some THEN ExprLen(s.expression.v) + 1 ELSE 2
      [] s.k = "Raise" -> ExprLen(s.expression) + 3
      [] s.k = "Break" -> 1
      [] s.k = "ClassDeclaration" -> 4
      [] s.k = "DeclareFunction" -> NumDefaults(s.parameters) + 5
      [] s.k = "ForStatement" -> ExprLen(s.list_expression) + 5 + BlockLen(s.body)
      [] s.k = "WhileStatement" -> ExprLen(s.expression) + 2 + BlockLen(s.body)
      [] s.k = "IfStatement" ->
            ExprLen(s.true_branch.expression) + 1 + BlockLen(s.true_branch.statements) +
            (IF s.final_else.some THEN 1 + BlockLen(s.final_else.v) ELSE 0)

RECURSIVE WhileLoops(_, _)
\* the while statements of a statement list whose first instruction is at
\* index start, at the top level, in if/else branches and in while bodies:
\* the index of the first instruction of the condition (before), of the
\* JumpIfFalseAndPopStack (test) and of the closing JumpUnconditional (close)
WhileLoops(items, start) ==
    IF items = <<>> THEN {}
    ELSE LET s == Head(items)
         IN  (CASE s.k = "WhileStatement" ->
                      {[before |-> start,
                        test |-> start + ExprLen(s.expression),
                        close |-> start + StmtLen(s) - 1]}
                      \cup WhileLoops(s.body, start + ExprLen(s.expression) + 1)
                [] s.k = "IfStatement" ->
                      WhileLoops(s.true_branch.statements,
                                 start + ExprLen(s.true_branch.expression) + 1)
                      \cup (IF s.final_else.some
                            THEN WhileLoops(s.final_else.v,
                                            start + ExprLen(s.true_branch.expression) + 2 +
                                            BlockLen(s.true_branch.statements))
                            ELSE {})
                [] OTHER -> {})
             \cup WhileLoops(Tail(items), start + StmtLen(s))

\* C20: for every while statement, at the top level of a code object, inside
\* an if/else branch or inside the body of another while, the emitted
\* JumpIfFalseAndPopStack targets the absolute index of the instruction right
\* after the loop's closing JumpUnconditional, and that closing jump targets
\* the absolute index of the first instruction of the loop condition.
C20_WhileJumpTargetsAbsolute ==
    ScriptUnit =>
        \A w \in WhileLoops(unit.body, 0) :
            /\ code.instructions[w.test + 1] = JumpIfFalseAndPopStack(w.close + 1)
            /\ code.instructions[w.close + 1] = JumpUnconditional(w.before)

\* the positions computed from the statements are those of the loop's jumps
WhileLayoutAgrees ==
    ScriptUnit =>
        /\ BlockLen(unit.body) \in {Len(code.instructions), Len(code.instructions) - 2}
        /\ \A w \in WhileLoops(unit.body, 0) :
            /\ code.instructions[w.test + 1].op = "JumpIfFalseAndPopStack"
            /\ code.instructions[w.close + 1].op = "JumpUnconditional"

-----------------------------------------------------------------------------
(* Layout of every if, while, for, break, bare return and dotted assignment *)
(* of a unit, derived from the statements.  Indices are absolute in the     *)
(* unit's instruction list.                                                 *)

\* where a statement stands: inside a for body, inside any loop body, and
\* the index of the exit instruction (JumpIfFalseAndPopStack or ForIter) of
\* the innermost enclosing loop
Within(inFor, inLoop, exitAt) == [inFor |-> inFor, inLoop |-> inLoop, exitAt |-> exitAt]
TopLevel == Within(FALSE, FALSE, 0 - 1)

RECURSIVE Constructs(_, _, _)
Constructs(items, start, ctx) ==
    IF items = <<>> THEN {}
    ELSE LET s == Head(items)
         IN  (CASE s.k = "WhileStatement" ->
                      {[kind |-> "while", ctx |-> ctx, before |-> start,
                        test |-> start + ExprLen(s.expression),
                        close |-> start + StmtLen(s) - 1]}
                      \cup Constructs(s.body, start + ExprLen(s.expression) + 1,
                                      Within(ctx.inFor, TRUE, start + ExprLen(s.expression)))
                [] s.k = "ForStatement" ->
                      {[kind |-> "for", ctx |-> ctx,
                        iter |-> start + ExprLen(s.list_expression) + 2,
                        close |-> start + StmtLen(s) - 1]}
                      \cup Constructs(s.body, start + ExprLen(s.list_expression) + 4,
                                      Within(TRUE, TRUE, start + ExprLen(s.list_expression) + 2))
                [] s.k = "IfStatement" ->
                      {[kind |-> "if", ctx |-> ctx, has_else |-> s.final_else.some,
                        test |-> start + ExprLen(s.true_branch.expression),
                        true_end |-> start + ExprLen(s.true_branch.expression) + 1 +
                                     BlockLen(s.true_branch.statements),
                        after |-> start + StmtLen(s)]}
                      \cup Constructs(s.true_branch.statements,
                                      start + ExprLen(s.true_branch.expression) + 1, ctx)
                      \cup (IF s.final_else.some
                            THEN Constructs(s.final_else.v,
                                            start + ExprLen(s.true_branch.expression) + 2 +
                                            BlockLen(s.true_branch.statements), ctx)
                            ELSE {})
                [] s.k = "Break" -> {[kind |-> "break", ctx |-> ctx, at |-> start]}
                [] s.k = "Assign" /\ Len(s.path) >= 2 ->
                      {[kind |-> "assign", ctx |-> ctx, at |-> start, path |-> s.path,
                        expr_end |-> start + ExprLen(s.expression) - 1,
                        store |-> start + StmtLen(s) - 1]}
                [] s.k = "Return" /\ ~s.expression.some ->
                      {[kind |-> "return", ctx |-> ctx, at |-> start]}
                [] OTHER -> {})
             \cup Constructs(Tail(items), start + StmtLen(s), ctx)

\* the constructs of the unit in focus
UnitConstructs == Constructs(unit.body, 0, TopLevel)
\* the instruction at 0-based index i
At(i) == code.instructions[i + 1]

\* the jumps of a while, for or if are the absolute ones
AbsoluteJumps(c) ==
    CASE c.kind = "while" ->
            At(c.test) = JumpIfFalseAndPopStack(c.close + 1) /\
            At(c.close) = JumpUnconditional(c.before)
      [] c.kind = "for" ->
            At(c.iter) = ForIter(c.close + 1) /\ At(c.close) = JumpUnconditional(c.iter)
      [] c.kind = "if" ->
            IF c.has_else
            THEN At(c.test) = JumpIfFalseAndPopStack(c.true_end + 1) /\
                 At(c.true_end) = JumpUnconditional(c.after)
            ELSE At(c.test) = JumpIfFalseAndPopStack(c.true_end)
      [] OTHER -> TRUE

\* the positions computed from the statements are those of the constructs
ConstructLayoutAgrees ==
    ScriptUnit =>
        \A c \in UnitConstructs :
            CASE c.kind = "while" -> At(c.test).op = "JumpIfFalseAndPopStack" /\
                                     At(c.close).op = "JumpUnconditional"
              [] c.kind = "for" -> At(c.iter).op = "ForIter" /\ At(c.close).op = "JumpUnconditional"
              [] c.kind = "if" -> At(c.test).op = "JumpIfFalseAndPopStack" /\
                                  (c.has_else => At(c.true_end).op = "JumpUnconditional")
              [] c.kind = "break" -> At(c.at).op = "JumpUnconditional" /\ c.ctx.inLoop
              [] OTHER -> TRUE

\* C21: for every for statement, ForIter targets the absolute index of the
\* instruction right after the loop's closing JumpUnconditional and the
\* closing jump targets the absolute index of the ForIter; every jump emitted
\* by an if, while or for nested in the loop body is absolute too.
C21_ForJumpTargetsAbsolute ==
    ScriptUnit =>
        \A c \in UnitConstructs : (c.kind = "for" \/ c.ctx.inFor) => AbsoluteJumps(c)

\* C22: for every if statement at the top level of a code object or nested
\* inside branches of other if statements: with an else arm,
\* JumpIfFalseAndPopStack targets the first instruction of the else arm and
\* the JumpUnconditional that ends the true arm targets the first instruction
\* after the else arm; without an else arm, JumpIfFalseAndPopStack targets
\* the first instruction after the true arm and no JumpUnconditional is
\* emitted.
C22_IfJumpTargetsAbsolute ==
    ScriptUnit =>
        /\ \A c \in UnitConstructs : (c.kind = "if" /\ ~c.ctx.inLoop) => AbsoluteJumps(c)
        /\ Len(code.instructions) =
              BlockLen(unit.body) + (IF EndsInReturn(unit.body) THEN 0 ELSE 2)

\* an if nested in the true arm of another if: its jump is compiled with a
\* non-zero offset
C22_Witness ==
    /\ ScriptUnit
    /\ \E c, d \in UnitConstructs :
          /\ c.kind = "if" /\ d.kind = "if" /\ ~c.ctx.inLoop
          /\ c.test < d.test /\ d.after <= c.true_end
          /\ At(d.test) = JumpIfFalseAndPopStack(d.true_end)

\* C23: every break lexically inside a loop, also one inside if/else
\* branches of the loop body, is compiled to a JumpUnconditional whose target
\* is the exit target of the innermost enclosing loop (the target of that
\* loop's JumpIfFalseAndPopStack or ForIter); no UnresolvedBreak is left in
\* the code object.
C23_BreakLeavesInnermostLoop ==
    ScriptUnit =>
        /\ \A c \in UnitConstructs :
              c.kind = "break" => At(c.at) = JumpUnconditional(At(c.ctx.exitAt).arg)
        /\ \A i \in 1..Len(code.instructions) : code.instructions[i].op # "UnresolvedBreak"

\* a break in a loop nested in another loop, the two loops having different
\* exit targets
C23_Witness ==
    /\ ScriptUnit
    /\ \E b, inner, outer \in UnitConstructs :
          /\ b.kind = "break"
          /\ inner.kind \in {"while", "for"} /\ outer.kind \in {"while", "for"}
          /\ ~outer.ctx.inLoop /\ inner.ctx.inLoop
          /\ b.ctx.exitAt = (IF inner.kind = "while" THEN inner.test ELSE inner.iter)
          /\ At(b.ctx.exitAt).arg #
                At(IF outer.kind = "while" THEN outer.test ELSE outer.iter).arg

-----------------------------------------------------------------------------
(* Bare return *)

RECURSIVE HasBareReturn(_)
\* a `return` without a value somewhere in the statements, the bodies of
\* nested blocks, functions and classes included
HasBareReturn(items) ==
    \E i \in 1..Len(items) :
        LET s == items[i]
        IN  CASE s.k = "Return" -> ~s.expression.some
              [] s.k = "IfStatement" ->
                    HasBareReturn(s.true_branch.statements) \/
                    (s.final_else.some /\ HasBareReturn(s.final_else.v))
              [] s.k \in {"WhileStatement", "ForStatement", "DeclareFunction",
                          "ClassDeclaration"} -> HasBareReturn(s.body)
              [] OTHER -> FALSE

\* C24: a bare return compiles, in any code object and at any position, to
\* LoadConst(i); ReturnValue with consts[i] = None, and compiling a program
\* with a bare return succeeds whether or not None was interned before it.
C24_BareReturnCompiles ==
    (mode = "script" /\ HasBareReturn(ast)) =>
        /\ phase = "compiled"
        /\ \A c \in UnitConstructs :
              c.kind = "return" =>
                  /\ At(c.at).op = "LoadConst"
                  /\ code.consts[At(c.at).arg + 1] = ConstNone
                  /\ At(c.at + 1) = Simple("ReturnValue")

-----------------------------------------------------------------------------
(* Dotted assignment *)

\* C25: after the code of a dotted assignment a.b.c = expr has run under the
\* StoreAttr of the opcode table, the object loaded by the intermediate
\* components has its last-component attribute bound to the value of expr,
\* and no value pushed by the statement is left on the value stack.
C25_DottedAssignBindsValue ==
    (phase \in {"running", "halted"} /\ result.op = "StoreAttr") =>
        \A c \in UnitConstructs :
            (c.kind = "assign" /\ c.store = result.at) =>
                /\ result.name = c.path[Len(c.path)]
                /\ result.target = c.store - 1
                /\ result.value = c.expr_end
                /\ (pc = c.store + 1 =>
                        \A i \in 1..Len(stack) : stack[i] \notin c.at..c.store)

-----------------------------------------------------------------------------
(* Function definitions *)

\* the prefix joined with '.' and the name; the name alone without a prefix
Qualified(prefix, name) == IF prefix.some THEN prefix.v \o "." \o name ELSE name

\* the constants a function body mentions, the None of its synthesized return
\* included
BodyConsts(body, qualname) ==
    Range(BlockConsts(body, 1, Some(qualname))) \cup
    (IF EndsInReturn(body) THEN {} ELSE {ConstNone})

\* the constant a LoadConst at 1-based position i of the unit in focus loads
Loaded(i) == code.consts[code.instructions[i].arg + 1]

\* the instructions that end at the MakeFunction at position m are those of
\* the def statement decl
FunctionShape(decl, m) ==
    LET k == NumDefaults(decl.parameters)
        qualname == Qualified(unit.prefix, decl.function_name)
    IN  /\ m - 3 - k >= 1
        /\ \A i \in 1..k :
              /\ code.instructions[m - 4 - k + i].op = "LoadConst"
              /\ Loaded(m - 4 - k + i) = DefaultConsts(decl.parameters, 1)[i]
        /\ code.instructions[m - 3] = BuildList(k)
        /\ code.instructions[m - 2].op = "LoadConst"
        /\ Loaded(m - 2).tag = "CodeObject"
        /\ Loaded(m - 2).code.objname = qualname
        /\ Range(Loaded(m - 2).code.consts) = BodyConsts(decl.body, qualname)
        /\ code.instructions[m - 1].op = "LoadConst"
        /\ Loaded(m - 1) = ConstString(qualname)
        /\ code.instructions[m] = MakeFunction(k > 0)
        /\ code.instructions[m + 1].op = "StoreName"
        /\ code.names[code.instructions[m + 1].arg + 1] = decl.function_name

\* C26: a def with k default-valued parameters compiles, in the enclosing
\* unit, to the k default expressions in declaration order (constants of the
\* enclosing unit), BuildList(k), LoadConst(code object), LoadConst(qualified
\* name), MakeFunction(k > 0), StoreName(f); the constants of the function's
\* code object are those of its body alone, and its objname is the enclosing
\* prefix joined with '.' and the function name.
C26_FunctionDefinitionShape ==
    ScriptUnit =>
        /\ Len(MakeFunctionPositions) = Len(DeclaredFunctions(unit.body))
        /\ \A j \in 1..Len(MakeFunctionPositions) :
              FunctionShape(DeclaredFunctions(unit.body)[j], MakeFunctionPositions[j])

\* a def with the defaults 1 and 2 declared inside a class or function, whose
\* body mentions the constant 1 and not the constant 2
C26_Witness ==
    /\ ScriptUnit
    /\ unit.prefix.some
    /\ \E m \in 1..Len(code.instructions) :
          /\ code.instructions[m] = MakeFunction(TRUE)
          /\ code.instructions[m - 3] = BuildList(2)
          /\ Loaded(m - 2).code.objname = unit.prefix.v \o "." \o "f"
          /\ ConstInteger(1) \in Range(Loaded(m - 2).code.consts)
          /\ ConstInteger(2) \notin Range(Loaded(m - 2).code.consts)
          /\ ConstInteger(2) \in Range(code.consts)

-----------------------------------------------------------------------------
(* elif *)

RECURSIVE WithoutElifs(_)
\* the statements with the elifs of every if statement removed
WithoutElifs(items) ==
    [i \in 1..Len(items) |->
        LET s == items[i]
        IN  CASE s.k = "IfStatement" ->
                    IfStatement(s.true_branch.expression,
                                WithoutElifs(s.true_branch.statements), <<>>,
                                IF s.final_else.some
                                THEN Some(WithoutElifs(s.final_else.v)) ELSE None)
              [] s.k \in {"WhileStatement", "ForStatement", "DeclareFunction",
                          "ClassDeclaration"} ->
                    [s EXCEPT !.body = WithoutElifs(s.body)]
              [] OTHER -> s]

RECURSIVE HasElifs(_)
HasElifs(items) ==
    \E i \in 1..Len(items) :
        LET s == items[i]
        IN  CASE s.k = "IfStatement" ->
                    \/ s.elifs # <<>>
                    \/ HasElifs(s.true_branch.statements)
                    \/ (s.final_else.some /\ HasElifs(s.final_else.v))
              [] s.k \in {"WhileStatement", "ForStatement", "DeclareFunction",
                          "ClassDeclaration"} -> HasElifs(s.body)
              [] OTHER -> FALSE

\* C27: the compiler ignores the elifs of an if statement: the program
\* compiled from statements with elifs is the one compiled from the same
\* statements without them, so no instruction evaluates an elif condition or
\* body and a false condition leads to the else arm or past the statement.
C27_ElifsIgnored ==
    (mode = "script" /\ phase # "source") => program = compile(WithoutElifs(ast))

\* a compiled program whose if statement has an elif arm and an else arm
C27_Witness ==
    /\ ScriptUnit
    /\ unit.main
    /\ \E i \in 1..Len(ast) :
          ast[i].k = "IfStatement" /\ ast[i].elifs # <<>> /\ ast[i].final_else.some
    /\ "e" \notin Range(code.names)
    /\ program = compile(WithoutElifs(ast))

-----------------------------------------------------------------------------
(* compile_repl *)

\* C30: for a program whose last top-level statement is not a standalone
\* expression, compile_repl returns exactly what compile returns and does not
\* fail where compile succeeds, main units of fewer than three instructions
\* included.
C30_ReplKeepsOtherPrograms ==
    (mode = "repl" /\ phase # "source" /\ Last(ast).k # "StandaloneExpr")
        => program = compile(ast)


-----------------------------------------------------------------------------
(* Properties of the lexer *)

Integer(v) == [t |-> "LiteralInteger", v |-> v]
Float(m, e) == [t |-> "LiteralFloat", v |-> [m |-> m, e |-> e]]
Identifier(s) == [t |-> "Identifier", s |-> s]
Op(name) == [t |-> "Operator", op |-> name]
Ok(tokens) == [out |-> "Ok", tokens |-> tokens]
Tokenized(family) == result.op = "tokenize" /\ result.family = family
Part(i) == result.input.parts[i]

\* the token each numeric literal of the sources stands for
NumberToken(src) ==
    CASE src = <<"6">> -> Integer(6)
      [] src = <<"1", "2">> -> Integer(12)
      [] src = <<"1", ".", "5">> -> Float(15, -1)
      [] src = <<"2", "e", "-", "3">> -> Float(2, -3)
      [] src = <<"1", ".", "5", "e", "2">> -> Float(15, 1)
      [] src = <<"7", "e", "1">> -> Float(7, 1)

\* the token each operator spelling stands for
OperatorNamed(src) ==
    CASE src = <<"+">> -> Op("Plus") [] src = <<"-">> -> Op("Minus")
      [] src = <<"*">> -> Op("Multiply") [] src = <<"/">> -> Op("Divide")
      [] src = <<"<", "<">> -> Op("BitShiftLeft") [] src = <<">", ">">> -> Op("BitShiftRight")
      [] src = <<"<", "=">> -> Op("LessEquals") [] src = <<">", "=">> -> Op("GreaterEquals")
      [] src = <<">">> -> Op("Greater") [] src = <<"<">> -> Op("Less")
      [] src = <<"!", "=">> -> Op("NotEquals") [] src = <<"=", "=">> -> Op("Equals")
      [] src = <<"^">> -> Op("Xor") [] src = <<"=">> -> [t |-> "Assign"]

\* the tokens of the pieces the sources put around the part under test
PieceTokens(src) ==
    CASE src \in {<<>>, <<" ">>} -> <<>>
      [] src \in {<<"x">>, <<"x", " ">>, <<" ", " ", "x", " ">>} -> <<Identifier(<<"x">>)>>
      [] src = <<"1">> -> <<Integer(1)>>
      [] src = <<" ", "1">> -> <<Integer(1)>>
      [] src = <<",">> -> <<[t |-> "Comma"]>>
      [] src = <<")">> -> <<Op("CloseParen")>>
      [] src = <<"+">> -> <<Op("Plus")>>
      [] src = <<"+", "1">> -> <<Op("Plus"), Integer(1)>>
      [] src \in {<<"-", "1">>, <<" ", "-", " ", "1">>} -> <<Op("Minus"), Integer(1)>>
      [] src = <<"\n">> -> <<[t |-> "NewLine"]>>
      [] src = <<"\n", "x">> -> <<[t |-> "NewLine"], Identifier(<<"x">>)>>
      [] src = <<"i", "f", " ", "x", ":">> ->
            <<[t |-> "Keyword", s |-> <<"i", "f">>], Identifier(<<"x">>), [t |-> "Colon"]>>
      [] src = <<"x", " ", " ", "=", " ", "1">> ->
            <<Identifier(<<"x">>), [t |-> "Assign"], Integer(1)>>

\* C14: tokenizing `a op b` gives the token list [a, op, b] whatever the
\* amount of spaces around the operator and at both ends of the source,
\* including none, for every numeric literal a, b and every binary operator.
C14_SpacingInvariant ==
    Tokenized("binary") =>
        result.value = Ok(<<NumberToken(Part(2)), OperatorNamed(Part(4)), NumberToken(Part(6))>>)

\* C15: the tokenizer uses longest match on operators: each of <<, >>, <=,
\* >=, != and == is emitted as one token of that operator, and a single <, >
\* or = that is not followed by its second character is emitted as Less,
\* Greater or Assign.
C15_LongestOperatorMatch ==
    Tokenized("operators") =>
        result.value =
            Ok(<<Identifier(<<"x">>), OperatorNamed(Part(2))>> \o PieceTokens(Part(3)) \o
               (IF Len(result.input.parts) = 5
                THEN <<OperatorNamed(Part(4))>> \o PieceTokens(Part(5))
                ELSE <<>>))

\* characters that are no digit, letter, underscore, whitespace, quote,
\* comma, colon or first character of an operator, and part of no token
StartsNoToken == {"#", "%", "U+00BE"}

\* C16: tokenize returns Err (no token list, no panic) for every source that
\* contains, outside a string literal, a character that starts no token.
C16_UnrecognizedIsErr ==
    (Tokenized("short") /\ \E i \in 1..Len(result.source) : result.source[i] \in StartsNoToken)
        => result.value = [out |-> "Err", tokens |-> <<>>]

\* C17: a numeric literal made only of digits is one LiteralInteger with its
\* decimal value, one with a '.' fraction and/or an 'e' exponent (optionally
\* with '-') is one LiteralFloat with that value; the literal ends at the
\* first character that cannot continue it, which starts the next token.
C17_NumericLiterals ==
    Tokenized("number") =>
        result.value = Ok(<<NumberToken(Part(1))>> \o PieceTokens(Part(2)))

RECURSIVE Unescaped(_)
\* the characters the items of a string literal stand for
Unescaped(items) ==
    IF items = <<>> THEN <<>>
    ELSE (IF Head(items)[1] = "\\" THEN <<Head(items)[2]>> ELSE Head(items))
         \o Unescaped(Tail(items))

\* C18: a string literal delimited by quote character q is tokenized as
\* exactly one LiteralString holding the characters between the opening
\* quote and the first unescaped q, where backslash-q stands for q and
\* backslash-backslash for one backslash; tokenizing resumes right after the
\* closing quote.
C18_StringLiterals ==
    Tokenized("string") =>
        result.value = Ok(PieceTokens(Part(1)) \o
                          <<[t |-> "LiteralString", s |-> Unescaped(result.input.items)]>> \o
                          PieceTokens(Part(5)))

\* a literal with an escaped quote and an escaped backslash between two tokens
C18_Witness ==
    /\ Tokenized("string")
    /\ result.input.items = <<<<"\\", "'">>, <<"\\", "\\">>>>
    /\ Part(1) = <<"x">> /\ Part(5) = <<"+">>
    /\ result.value.out = "Ok"
    /\ Len(result.value.tokens) = 3

\* C19: a newline followed by 4*k spaces is tokenized as NewLine followed by
\* exactly k Indentation tokens, placed before the tokens of that line;
\* spaces elsewhere produce no token, and tokens appear in source order.
C19_IndentationTokens ==
    Tokenized("indent") =>
        result.value = Ok(PieceTokens(Part(1)) \o <<[t |-> "NewLine"]>> \o
                          [i \in 1..result.input.k |-> [t |-> "Indentation"]] \o
                          PieceTokens(Part(4)))

\* C29: tokenize is total: for every source it returns Ok(tokens) or
\* Err(message), and never aborts on a read past the end of the source or on
\* a literal it delimited itself and cannot parse.
C29_TokenizeTotal ==
    result.op = "tokenize" => result.value.out \in {"Ok", "Err"}

-----------------------------------------------------------------------------

Next ==
    \/ Compile
    \/ CompileRepl
    \/ EnterFunction
    \/ EnterClass
    \/ Start
    \/ StepStraight
    \/ StepStoreAttr
    \/ StepJumpUnconditional
    \/ StepJumpIfFalseAndPopStack
    \/ StepForIter
    \/ StepReturnValue
    \/ StepRaise
    \/ StepEnd
    \/ StepFault

Spec == Init /\ [][Next]_vars

\* the compiler alone: compile or compile_repl, and the descent into the
\* code objects of the defs and classes
NextCompile ==
    \/ Compile
    \/ CompileRepl
    \/ EnterFunction
    \/ EnterClass

SpecCompile == Init /\ [][NextCompile]_vars

====
